---- MODULE Spec2Model ----
(***************************************************************************)
(* Model of pkg/mcp: the stdio JSON-RPC Client (client.go), the Manager's  *)
(* notification wiring (manager.go) and the MCPTool adapter (tool.go).     *)
(*                                                                         *)
(* A goroutine is a thread: the caller threads 1..NumCallers and, for the  *)
(* process of generation g, the reader thread ReaderOf(g).  Every thread   *)
(* can be inside Client.call (the reader is, when the notification handler *)
(* runs Manager.refreshTools on it).                                       *)
(***************************************************************************)
EXTENDS Integers, Sequences, FiniteSets, TLC

\* ------------------------------------------------------------------ bounds

\* caller goroutines that use the Client concurrently
NumCallers == 2
\* lines one server process writes to its stdout before it falls silent
MaxFrames == 3
\* notifications/tools/list_changed frames a server sends (each costs one ID)
MaxRefresh == 1
\* replacement processes a Client can be given by Reconnect
MaxGen == 2
\* servers in the configuration handed to ConnectAll
NumServers == 3
\* tools a server can list
MaxTools == 1
\* tools in the catalog of a server whose catalog changes
MaxCatalog == 3
\* characters in a server name or a tool name
MaxName == 2
\* tools in one page of a tools/list result
MaxPage == 2
\* content blocks in a tools/call result
MaxBlocks == 2
\* capacity of the stderr buffer (8192 in NewClient, client.go:131)
BufCap == 2
\* bytes of stderr a status entry carries at most (500 in ServerStatus,
\* manager.go:171-172)
StatusTail == 1
\* parts one frame is written in, the last one ending with its newline
FrameParts == 2

\* bits of an int and of a time.Duration (64 in the build)
DurationBits == 10

\* ticks of a time.Duration in one second (10^9 nanoseconds in time.Second)
Second == 4

\* seconds of the default per-call timeout (tool.go:37, manager.go:116, 145)
DefaultSeconds == 60

\* ------------------------------------------------------------- vocabulary

Callers == 1 .. NumCallers
Gens == 0 .. MaxGen
ReaderOf(g) == NumCallers + 1 + g
Readers == {ReaderOf(g) : g \in Gens}
Threads == Callers \cup Readers

\* request IDs the model can allocate: two calls per caller (Execute retries
\* once), one per refresh, one initialize per replacement process; ID 0 is
\* never allocated (nextID starts at 0 and Add(1) comes first)
MaxID == 2 * NumCallers + MaxRefresh + MaxGen
IDs == 1 .. MaxID

\* server names and, per server, the tools its tools/list can return
Servers == 1 .. NumServers
ToolNames == 1 .. MaxTools

\* what a server does when it is connected: its command cannot be started,
\* its initialize fails, its tools/list fails, or it lists its tools
Behaviours == {"nostart", "noinit", "nolist", "ok"}

\* a server's configuration (ServerConfig.Disabled; the command stands for
\* what the process does) and the tools it offers
Configs == [disabled : BOOLEAN, does : Behaviours, offers : SUBSET ToolNames]

ListChanged == "notifications/tools/list_changed"
OtherNotification == "notifications/message"

NoFrame == [raw |-> "none", id |-> 0, method |-> "", err |-> "none"]

\* a line of the server's stdout that parses as a JSON-RPC response
Resp(i, e) == [raw |-> "json", id |-> i, method |-> "", err |-> e]

\* a line that parses as a notification (a method, no id: ID decodes to 0)
Notif(m) == [raw |-> "json", id |-> 0, method |-> m, err |-> "none"]

\* a blank line, a plain-text log line, a line starting with '{' that
\* json.Unmarshal rejects
Junk(r) == [raw |-> r, id |-> 0, method |-> "", err |-> "none"]
JunkKinds == {"blank", "text", "badjson"}

\* the deferred block sending an empty result in place of the error
ServerClosedNoError(i) == [raw |-> "synthetic", id |-> i, method |-> "", err |-> "none"]

\* the synthetic response readLoop's deferred block sends (client.go:195-198)
ServerClosed(i) == [raw |-> "synthetic", id |-> i, method |-> "", err |-> "closed"]

NoResult == [kind |-> "none", frame |-> NoFrame]
Result(k, f) == [kind |-> k, frame |-> f]

VARIABLES
    \* Client fields
    alive,        \* c.alive
    nextID,       \* c.nextID
    cur,          \* the generation c.cmd, c.stdin, c.stdout, c.done, c.pending refer to
    pending,      \* pending[g]: the map made for generation g, id -> channel
    done,         \* done[g]: the done channel made for generation g is closed
    pendingMu,    \* 0 when free, else the thread that holds c.pendingMu
    chan,         \* chan[i]: buffer of the 1-slot channel made by the call with ID i
    onNotify,     \* a notification handler is set (Manager.connectServer)
    \* the server processes
    proc,         \* proc[g]: "none", "running", "eof" (stdout closed), "exited",
                  \* "reaped" (killed and waited for: cmd.Wait closed the stdout pipe)
    stdinOpen,    \* stdinOpen[g]: the Client has not closed the process's stdin
    wire,         \* wire[g]: the request frames the process has received
    out,          \* out[g]: lines on the process's stdout the reader has not read
    emitted,      \* emitted[g]: lines the process has written so far
    refreshes,    \* list_changed notifications sent so far
    \* Manager
    registry,     \* m.registry is set
    registered,   \* IDs of the tools/list responses whose tools were registered
    servers,      \* the configuration handed to ConnectAll: name -> config
    mtodo,        \* names ConnectAll's range loop has still to visit
    mcur,         \* the name connectServer is working on, 0 when none
    mpc,          \* position of ConnectAll: "loop", "new", "init", "list", "returned"
    mconfigs,     \* keys of m.configs
    mclients,     \* keys of m.clients
    spawned,      \* names whose process was started
    closed,       \* names whose Client was closed by connectServer
    allTools,     \* ConnectAll's allTools: [server, info] of each MCPTool
    \* threads inside Client.call
    cpc,          \* position in call
    cid,          \* the call's request ID
    cmethod,      \* the call's method
    cdone,        \* generation of the done channel the select waits on
    cres,         \* what call returned
    deadline,     \* the call's ctx can be cancelled (deadline or cancel)
    \* threads' operations
    tpc,          \* position in the operation that uses call (CallTool, Reconnect)
    epc,          \* position in MCPTool.Execute
    ecalls,       \* CallTool invocations the thread's Execute has made
    erecs,        \* Reconnect invocations the thread's Execute has made
    efirst,       \* what the first CallTool of the thread's Execute returned
    eres,         \* what Execute returned: "result", "callerr", "down", "crashed"
    \* readers
    rpc,          \* rpc[g]: position of readLoop of generation g
    rframe,       \* frame being routed
    rch,          \* channel found for it
    rmap,         \* generation of the map the deferred range loop iterates
    rrange,       \* IDs the deferred range loop has still to visit
    \* history
    sends,        \* sends[i]: sends the readers made into chan[i]
    returns,      \* returns[i]: times the call with ID i returned (0: a call without ID)
    atDeath,      \* IDs pending when a reader's ReadBytes failed
    skips,        \* lines the readers skipped
    notified,     \* methods handed to the handler, in order
    inited,       \* generations whose process has answered "initialize" with a result
    \* the tool registry and one server's catalog
    catalog,      \* the tools the server offers now
    listed,       \* the infos of the latest tools/list result of a refresh, "none" before
    regtools,     \* the registry: the [server, info] of the tools registered
    fpc,          \* position of refreshTools: "idle", "register"
    ftodo,        \* infos refreshTools' loop has still to register
    \* qualified names
    qpair,        \* two (server name, tool name) pairs, names as sequences of characters
    qnames,       \* the Name() of the MCPTool made for each pair, <<>> before
    \* ListTools
    lpc,          \* position of ListTools and its caller: "idle", "call", "done", "made"
    lcursor,      \* cursor (0: the empty string)
    lall,         \* allTools
    lsent,        \* the cursor parameter of each tools/list request sent (0: none)
    lgot,         \* the pages received, as the server wrote them
    lret,         \* what ListTools returned: [tools, err]
    lmade,        \* the MCPTools the caller made of the returned infos
    \* CallTool's output
    kpc,          \* position of CallTool after its call: "idle", "loop", "built", "done"
    kresult,      \* callResult: [content, isError]
    ki,           \* blocks the loop has written
    ksb,          \* sb, a string as the sequence of its pieces
    kret,         \* what CallTool returned: [result, err], err the error's message
    \* the stderr buffer
    bdata,        \* b.data
    bmu,          \* 0 when b.mu is free, else the thread that holds it
    bpc,          \* bpc[w]: position of the thread in Write or String
    bp,           \* bp[w]: the bytes p the thread is writing
    bwritten,     \* all bytes written so far, in the order the Writes appended them
    bseen,        \* what the latest String() returned and what had been written then
    \* Manager.ServerStatus
    salive,       \* salive[s]: the alive flag of the Client of server s
    sstderr,      \* sstderr[s]: what the Client's Stderr() returns
    spc,          \* position of ServerStatus: "idle", "loop", "second", "stderr", "returned"
    stodo,        \* names the range loop over m.clients has still to visit
    scur,         \* the name the loop is at, 0 when none
    sentry,       \* the entry s being built
    status,       \* the status map: name -> entry, an entry a map of fields
    \* Client.GracefulClose and Manager.Close
    gpc,          \* position of GracefulClose: "idle", "check", "closein", "select", "returned"
    wpc,          \* the goroutine in cmd.Wait: "none", "wait", "sent" (to the done channel)
    gkilled,      \* GracefulClose has called Process.Kill
    xpc,          \* position of Manager.Close: "idle", "loop", "closing", "returned"
    xtodo,        \* names the range loop of Manager.Close has still to visit
    \* the per-call timeout of the tools the Manager makes
    tcfg,         \* cfg.CallTimeout of the server, in seconds
    tmade,        \* the tools made: [via, callTimeout], callTimeout a time.Duration
    \* the write path to the process's stdin
    writeMu,      \* 0 when free, else the thread that holds c.writeMu
    inpc,         \* inpc[t]: "idle", "lock", "writing", "unlock"
    inleft,       \* inleft[t]: parts of its frame the thread's Write has still to write
    inframe,      \* inframe[t]: the frame the thread writes: [kind, n]
    inbytes,      \* what the pipe has received: parts [frame, part]
    inopen,       \* the pipe takes writes (the process lives, stdin is not closed)
    inbegun       \* frames begun so far

clientVars == <<alive, nextID, cur, pending, done, pendingMu, chan, onNotify>>
procVars == <<proc, stdinOpen, wire, out, emitted, refreshes>>
connVars == <<servers, mtodo, mcur, mpc, mconfigs, mclients, spawned, closed, allTools>>
mgrVars == <<registry, registered, connVars>>
callVars == <<cpc, cid, cmethod, cdone, cres, deadline>>
readerVars == <<rpc, rframe, rch, rmap, rrange>>
histVars == <<sends, returns, atDeath, skips, notified, inited>>
execVars == <<epc, ecalls, erecs, efirst, eres>>
regVars == <<catalog, listed, regtools, fpc, ftodo>>
nameVars == <<qpair, qnames>>
listVars == <<lpc, lcursor, lall, lsent, lgot, lret, lmade>>
outVars == <<kpc, kresult, ki, ksb, kret>>
bufVars == <<bdata, bmu, bpc, bp, bwritten, bseen>>
statusVars == <<salive, sstderr, spc, stodo, scur, sentry, status>>
closeVars == <<gpc, wpc, gkilled, xpc, xtodo>>
timeoutVars == <<tcfg, tmade>>
writeVars == <<writeMu, inpc, inleft, inframe, inbytes, inopen, inbegun>>
libVars == <<regVars, nameVars, listVars, outVars, bufVars, statusVars, closeVars, timeoutVars, writeVars>>

\* libVars without one of its parts
exceptReg == <<nameVars, listVars, outVars, bufVars, statusVars, closeVars, timeoutVars, writeVars>>
exceptNames == <<regVars, listVars, outVars, bufVars, statusVars, closeVars, timeoutVars, writeVars>>
exceptList == <<regVars, nameVars, outVars, bufVars, statusVars, closeVars, timeoutVars, writeVars>>
exceptOut == <<regVars, nameVars, listVars, bufVars, statusVars, closeVars, timeoutVars, writeVars>>
exceptBuf == <<regVars, nameVars, listVars, outVars, statusVars, closeVars, timeoutVars, writeVars>>
exceptStatus == <<regVars, nameVars, listVars, outVars, bufVars, closeVars, timeoutVars, writeVars>>
exceptClose == <<regVars, nameVars, listVars, outVars, bufVars, statusVars, timeoutVars, writeVars>>
exceptTimeout == <<regVars, nameVars, listVars, outVars, bufVars, statusVars, closeVars, writeVars>>
exceptWrite == <<regVars, nameVars, listVars, outVars, bufVars, statusVars, closeVars, timeoutVars>>

\* the Client, its processes and the Manager's connections: what the operations
\* on registry, names, buffers leave alone
coreVars == <<clientVars, procVars, mgrVars, callVars, tpc, execVars, readerVars, histVars>>
vars == <<coreVars, libVars>>

\* ------------------------------------------------------------ map helpers

\* m with key k bound to v (m[k] = v on a Go map)
MapPut(m, k, v) == [x \in DOMAIN m \cup {k} |-> IF x = k THEN v ELSE m[x]]

\* m without key k (delete(m, k): no effect when k is absent)
MapDelete(m, k) == [x \in DOMAIN m \ {k} |-> m[x]]
EmptyMap == [x \in {} |-> 0]

\* --------------------------------------------------------------- Client.call

\* call returns r to thread t
Return(t, r) ==
    /\ cpc' = [cpc EXCEPT ![t] = "ret"]
    /\ cres' = [cres EXCEPT ![t] = r]
    /\ returns' = [returns EXCEPT ![cid[t]] = @ + 1]

\* every call given the same ID
NewIDFixed(n) == 1

\* client.go:251  id := c.nextID.Add(1), n the counter's value
NewID(n) == n + 1

\* a check that lets every call through
NotRunningNever(t) == FALSE

\* client.go:247  !c.alive.Load()
NotRunning(t) == ~alive

\* client.go:247-251  the liveness check, then the ID
CallCheck(t) ==
    /\ cpc[t] = "check"
    /\ IF ~NotRunning(t)
       THEN /\ cpc' = [cpc EXCEPT ![t] = "register"]
            /\ nextID' = NewID(nextID)
            /\ cid' = [cid EXCEPT ![t] = NewID(nextID)]
            /\ UNCHANGED <<cres, returns>>
       ELSE /\ Return(t, Result("notrunning", NoFrame))
            /\ UNCHANGED <<nextID, cid>>
    /\ UNCHANGED <<alive, cur, pending, done, pendingMu, chan, onNotify, procVars,
                   mgrVars, libVars, cmethod, cdone, deadline, tpc, execVars, readerVars,
                   sends, atDeath, skips, notified, inited>>

\* every call registered under the same key
RegisterKeyFixed(t) == 1

\* the key and the channel call stores in the pending map (client.go:268)
RegisterKey(t) == cid[t]
RegisterChan(t) == cid[t]

\* client.go:266-269  ch := make(chan, 1); c.pending[id] = ch under pendingMu
CallRegister(t) ==
    /\ cpc[t] = "register"
    /\ pendingMu = 0
    /\ pending' = [pending EXCEPT ![cur] = MapPut(@, RegisterKey(t), RegisterChan(t))]
    /\ cpc' = [cpc EXCEPT ![t] = "write"]
    /\ UNCHANGED <<alive, nextID, cur, done, pendingMu, chan, onNotify, procVars,
                   mgrVars, libVars, cid, cmethod, cdone, cres, deadline, tpc, execVars, readerVars,
                   histVars>>

\* a write to the stdin pipe of generation g succeeds
CanWrite(g) == proc[g] \in {"running", "eof"} /\ stdinOpen[g]

\* client.go:271-274  the frame is written under writeMu, or the write fails
CallWrite(t) ==
    /\ cpc[t] = "write"
    /\ IF CanWrite(cur)
       THEN /\ wire' = [wire EXCEPT ![cur] = @ \cup {[id |-> cid[t], method |-> cmethod[t]]}]
            /\ cpc' = [cpc EXCEPT ![t] = "enter"]
       ELSE /\ cpc' = [cpc EXCEPT ![t] = "wfail"]
            /\ UNCHANGED wire
    /\ UNCHANGED <<clientVars, proc, stdinOpen, out, emitted, refreshes, mgrVars, libVars,
                   cid, cmethod, cdone, cres, deadline, tpc, execVars, readerVars, histVars>>

\* the call whose write failed leaves its entry behind
WriteFailKeysNone(t) == {}

\* the entries the call whose write failed removes (client.go:276)
WriteFailKeys(t) == {cid[t]}

\* client.go:274-279  the write failed: the entry is removed, a write error returned
CallWriteFail(t) ==
    /\ cpc[t] = "wfail"
    /\ pendingMu = 0
    /\ pending' = [pending EXCEPT
                     ![cur] = [x \in DOMAIN @ \ WriteFailKeys(t) |-> @[x]]]
    /\ Return(t, Result("write", NoFrame))
    /\ UNCHANGED <<alive, nextID, cur, done, pendingMu, chan, onNotify, procVars,
                   mgrVars, libVars, cid, cmethod, cdone, deadline, tpc, execVars, readerVars,
                   sends, atDeath, skips, notified, inited>>

\* client.go:281  the select evaluates its channel operands: ctx.Done(), ch, c.done
CallEnterSelect(t) ==
    /\ cpc[t] = "enter"
    /\ cdone' = [cdone EXCEPT ![t] = cur]
    /\ cpc' = [cpc EXCEPT ![t] = "select"]
    /\ UNCHANGED <<clientVars, procVars, mgrVars, libVars, cid, cmethod, cres, deadline,
                   tpc, execVars, readerVars, histVars>>

\* client.go:282  case <-ctx.Done(): the deadline expired or ctx was cancelled
CallSelectCtx(t) ==
    /\ cpc[t] = "select"
    /\ deadline[t]
    /\ cpc' = [cpc EXCEPT ![t] = "ctxdel"]
    /\ UNCHANGED <<clientVars, procVars, mgrVars, libVars, cid, cmethod, cdone, cres,
                   deadline, tpc, execVars, readerVars, histVars>>

\* the cancelled call leaves its entry behind
CtxDeleteNothing(t) == {}

\* the cancelled call clears the table
CtxDeleteAll(t) == DOMAIN pending[cur]

\* the entries the cancelled call removes (client.go:284)
CtxDeleteKeys(t) == {cid[t]}

\* client.go:283-286  the cancelled call removes its entry and returns ctx.Err()
CallCtxDelete(t) ==
    /\ cpc[t] = "ctxdel"
    /\ pendingMu = 0
    /\ pending' = [pending EXCEPT
                     ![cur] = [x \in DOMAIN @ \ CtxDeleteKeys(t) |-> @[x]]]
    /\ Return(t, Result("ctx", NoFrame))
    /\ UNCHANGED <<alive, nextID, cur, done, pendingMu, chan, onNotify, procVars,
                   mgrVars, libVars, cid, cmethod, cdone, deadline, tpc, execVars, readerVars,
                   sends, atDeath, skips, notified, inited>>

\* client.go:287-291  case resp := <-ch
CallSelectResp(t) ==
    /\ cpc[t] = "select"
    /\ chan[cid[t]] # <<>>
    /\ chan' = [chan EXCEPT ![cid[t]] = Tail(@)]
    /\ Return(t, Result("resp", Head(chan[cid[t]])))
    /\ UNCHANGED <<alive, nextID, cur, pending, done, pendingMu, onNotify, procVars,
                   mgrVars, libVars, cid, cmethod, cdone, deadline, tpc, execVars, readerVars,
                   sends, atDeath, skips, notified, inited>>

\* client.go:292-293  case <-c.done
CallSelectDone(t) ==
    /\ cpc[t] = "select"
    /\ done[cdone[t]]
    /\ Return(t, Result("closed", NoFrame))
    /\ UNCHANGED <<clientVars, procVars, mgrVars, libVars, cid, cmethod, cdone, deadline,
                   tpc, execVars, readerVars, sends, atDeath, skips, notified, inited>>

\* one step of Client.call on thread t
CallStep(t) ==
    \/ CallCheck(t)
    \/ CallRegister(t)
    \/ CallWrite(t)
    \/ CallWriteFail(t)
    \/ CallEnterSelect(t)
    \/ CallSelectCtx(t)
    \/ CallCtxDelete(t)
    \/ CallSelectResp(t)
    \/ CallSelectDone(t)

\* thread t enters call(ctx, method, params); d: ctx can be cancelled
EnterCall(t, method, d) ==
    /\ cpc' = [cpc EXCEPT ![t] = "check"]
    /\ cmethod' = [cmethod EXCEPT ![t] = method]
    /\ deadline' = [deadline EXCEPT ![t] = d]
    /\ cres' = [cres EXCEPT ![t] = NoResult]
    /\ cid' = [cid EXCEPT ![t] = 0]

\* ------------------------------------------------------------ Client.readLoop

\* client.go:213-230  what readLoop makes of a line: "skip" (blank after
\* TrimSpace, first byte not '{', or rejected by json.Unmarshal),
\* "notification" (resp.Method is set) or "response"
Classify(line) ==
    IF line.raw \in {"blank", "text"} THEN "skip"
    ELSE IF line.raw = "badjson" THEN "skip"
    ELSE IF line.method # "" THEN "notification"
    ELSE "response"

\* a line that cannot be used ends the loop
SkipPcReturn == "close"

\* client.go:216, 221  where readLoop goes after a skipped line: continue
SkipPc == "read"

\* the oldest pending entry of map m
Oldest(m) == CHOOSE k \in DOMAIN m : \A j \in DOMAIN m : k <= j

\* responses matched to callers in arrival order, whatever their ID
RouteByArrival(m, f) ==
    IF DOMAIN m # {} THEN [ok |-> TRUE, ch |-> m[Oldest(m)]]
    ELSE [ok |-> FALSE, ch |-> 0]

\* a response whose ID is unknown handed to the oldest pending call
RouteUnknownToOldest(m, f) ==
    IF f.id \in DOMAIN m THEN [ok |-> TRUE, ch |-> m[f.id]]
    ELSE IF DOMAIN m # {} THEN [ok |-> TRUE, ch |-> m[Oldest(m)]]
    ELSE [ok |-> FALSE, ch |-> 0]

\* client.go:234  ch, ok := c.pending[resp.ID] on map m for frame f
Route(m, f) ==
    IF f.id \in DOMAIN m THEN [ok |-> TRUE, ch |-> m[f.id]]
    ELSE [ok |-> FALSE, ch |-> 0]

\* the lookup without the delete
RouteDeleteForgotten(m, f) == m

\* client.go:235-237  the map after the lookup: the entry found is deleted
RouteDelete(m, f) == MapDelete(m, f.id)

\* the handler started on a goroutine of its own
HandlerPcAsync == "read"

\* client.go:227  c.onNotify(...) is an ordinary call: the reader is in the
\* handler until it returns
HandlerPc == "handler"

\* client.go:205-238  one iteration of the loop on a line of c.stdout, up to the
\* unlock: a skipped line, a notification handed to the handler (which runs
\* Manager.refreshTools on this thread: manager.go:87-92, 129-137), or a
\* response looked up in the pending map
ReadLine(g) ==
    LET r == ReaderOf(g)
        line == Head(out[cur])
        what == Classify(line)
        refresh == what = "notification" /\ onNotify /\ line.method = ListChanged /\ registry
        hit == IF what = "response" THEN Route(pending[cur], line)
               ELSE [ok |-> FALSE, ch |-> 0]
    IN
    /\ rpc[g] = "read"
    /\ out[cur] # <<>>
    /\ what = "response" => pendingMu = 0
    /\ out' = [out EXCEPT ![cur] = Tail(@)]
    /\ skips' = IF what = "skip" THEN skips + 1 ELSE skips
    /\ notified' = IF what = "notification" /\ onNotify
                   THEN Append(notified, line.method) ELSE notified
    /\ IF refresh
       THEN /\ cpc' = [cpc EXCEPT ![r] = "check"]
            /\ cmethod' = [cmethod EXCEPT ![r] = "tools/list"]
            /\ deadline' = [deadline EXCEPT ![r] = TRUE]
            /\ cres' = [cres EXCEPT ![r] = NoResult]
            /\ cid' = [cid EXCEPT ![r] = 0]
       ELSE UNCHANGED <<cpc, cmethod, deadline, cres, cid>>
    /\ pending' = IF hit.ok THEN [pending EXCEPT ![cur] = RouteDelete(@, line)]
                  ELSE pending
    /\ rpc' = [rpc EXCEPT ![g] = IF what = "skip" THEN SkipPc
                                 ELSE IF refresh THEN HandlerPc
                                 ELSE IF hit.ok THEN "send" ELSE "read"]
    /\ rframe' = [rframe EXCEPT ![g] = IF hit.ok THEN line ELSE NoFrame]
    /\ rch' = [rch EXCEPT ![g] = hit.ch]
    /\ UNCHANGED <<alive, nextID, cur, done, pendingMu, chan, onNotify, proc,
                   stdinOpen, wire, emitted, refreshes, mgrVars, libVars, cdone, tpc, execVars,
                   rmap, rrange, sends, returns, atDeath, inited>>

\* client.go:240-242  ch <- &resp; the send waits while the channel is full
ReaderSend(g) ==
    /\ rpc[g] = "send"
    /\ Len(chan[rch[g]]) < 1
    /\ chan' = [chan EXCEPT ![rch[g]] = Append(@, rframe[g])]
    /\ sends' = [sends EXCEPT ![rch[g]] = @ + 1]
    /\ rpc' = [rpc EXCEPT ![g] = "read"]
    /\ rframe' = [rframe EXCEPT ![g] = NoFrame]
    /\ rch' = [rch EXCEPT ![g] = 0]
    /\ UNCHANGED <<alive, nextID, cur, pending, done, pendingMu, onNotify, procVars,
                   mgrVars, libVars, callVars, tpc, execVars, rmap, rrange, returns, atDeath, skips,
                   notified, inited>>

\* manager.go:137-154  refreshTools after ListTools returned on the reader's
\* thread: an error is logged, a result's tools are registered; then the
\* handler returns and the loop goes on (client.go:229)
RefreshReturn(g) ==
    LET r == ReaderOf(g)
        ok == cres[r].kind = "resp" /\ cres[r].frame.err = "none"
    IN
    /\ rpc[g] = "handler"
    /\ cpc[r] = "ret"
    /\ registered' = IF ok THEN registered \cup {cres[r].frame.id} ELSE registered
    /\ cpc' = [cpc EXCEPT ![r] = "idle"]
    /\ rpc' = [rpc EXCEPT ![g] = "read"]
    /\ UNCHANGED <<clientVars, procVars, libVars, registry, connVars, cid, cmethod, cdone,
                   cres, deadline, tpc, execVars, rframe, rch, rmap, rrange, histVars>>

\* client.go:205-211, 190  ReadBytes fails (EOF once the lines written are
\* read, or a read error on a pipe that cmd.Wait has closed): the loop returns
\* and the deferred block starts with c.alive.Store(false)
ReaderFail(g) ==
    /\ rpc[g] = "read"
    /\ \/ out[cur] = <<>> /\ proc[cur] \in {"eof", "exited"}
       \/ proc[cur] = "reaped"
    /\ alive' = FALSE
    /\ atDeath' = atDeath \cup DOMAIN pending[cur]
    /\ rpc' = [rpc EXCEPT ![g] = "close"]
    /\ UNCHANGED <<nextID, cur, pending, done, pendingMu, chan, onNotify, procVars,
                   mgrVars, libVars, callVars, tpc, execVars, rframe, rch, rmap, rrange, sends,
                   returns, skips, notified, inited>>

\* client.go:191  close(c.done); closing a channel that is closed already
\* panics: the reader goes no further
ReaderCloseDone(g) ==
    /\ rpc[g] = "close"
    /\ done' = [done EXCEPT ![cur] = TRUE]
    /\ rpc' = [rpc EXCEPT ![g] = IF done[cur] THEN "panic" ELSE "lock"]
    /\ UNCHANGED <<alive, nextID, cur, pending, pendingMu, chan, onNotify, procVars,
                   mgrVars, libVars, callVars, tpc, execVars, rframe, rch, rmap, rrange, histVars>>

\* the entries the deferred loop ranges over (client.go:194), map m
SweepRange(m) == DOMAIN m

\* client.go:193-194  c.pendingMu.Lock(); the range expression c.pending is evaluated
ReaderLock(g) ==
    /\ rpc[g] = "lock"
    /\ pendingMu = 0
    /\ pendingMu' = ReaderOf(g)
    /\ rmap' = [rmap EXCEPT ![g] = cur]
    /\ rrange' = [rrange EXCEPT ![g] = SweepRange(pending[cur])]
    /\ rpc' = [rpc EXCEPT ![g] = "sweep"]
    /\ UNCHANGED <<alive, nextID, cur, pending, done, chan, onNotify, procVars,
                   mgrVars, libVars, callVars, tpc, execVars, rframe, rch, histVars>>

\* client.go:194-200  one iteration, in the map's (arbitrary) order: the
\* terminal error is sent to the entry's channel (the send waits while the
\* channel is full) and the entry is deleted
ReaderSweep(g) ==
    \E i \in rrange[g] :
        LET ch == pending[rmap[g]][i] IN
        /\ rpc[g] = "sweep"
        /\ Len(chan[ch]) < 1
        /\ chan' = [chan EXCEPT ![ch] = Append(@, ServerClosed(i))]
        /\ sends' = [sends EXCEPT ![ch] = @ + 1]
        /\ pending' = [pending EXCEPT ![cur] = MapDelete(@, i)]
        /\ rrange' = [rrange EXCEPT ![g] = @ \ {i}]
        /\ UNCHANGED <<alive, nextID, cur, done, pendingMu, onNotify, procVars,
                       mgrVars, libVars, callVars, tpc, execVars, rpc, rframe, rch, rmap, returns,
                       atDeath, skips, notified, inited>>

\* client.go:201-202  the loop is over: c.pendingMu.Unlock(), readLoop ends
ReaderUnlock(g) ==
    /\ rpc[g] = "sweep"
    /\ rrange[g] = {}
    /\ pendingMu' = 0
    /\ rpc' = [rpc EXCEPT ![g] = "exit"]
    /\ UNCHANGED <<alive, nextID, cur, pending, done, chan, onNotify, procVars,
                   mgrVars, libVars, callVars, tpc, execVars, rframe, rch, rmap, rrange, histVars>>

\* one step of readLoop of generation g (the handler aside)
ReaderStep(g) ==
    \/ ReadLine(g)
    \/ ReaderSend(g)
    \/ ReaderFail(g)
    \/ ReaderCloseDone(g)
    \/ ReaderLock(g)
    \/ ReaderSweep(g)
    \/ ReaderUnlock(g)

\* ------------------------------------------------------- the server process
\* The process is the environment: it may answer any ID it likes (0 stands
\* for an ID no call was given), log to stdout, notify, close its stdout, exit.

Emit(g, line) ==
    /\ proc[g] = "running"
    /\ emitted[g] < MaxFrames
    /\ out' = [out EXCEPT ![g] = Append(@, line)]
    /\ emitted' = [emitted EXCEPT ![g] = @ + 1]

ServerRespond(g) ==
    \E i \in 0 .. nextID, e \in {"none", "rpc"} :
        /\ Emit(g, Resp(i, e))
        /\ UNCHANGED <<clientVars, proc, stdinOpen, wire, refreshes, mgrVars, libVars,
                       callVars, tpc, execVars, readerVars, histVars>>

ServerNotify(g) ==
    \E m \in {ListChanged, OtherNotification} :
        /\ m = ListChanged => refreshes < MaxRefresh
        /\ Emit(g, Notif(m))
        /\ refreshes' = IF m = ListChanged THEN refreshes + 1 ELSE refreshes
        /\ UNCHANGED <<clientVars, proc, stdinOpen, wire, mgrVars, libVars,
                       callVars, tpc, execVars, readerVars, histVars>>

ServerLog(g) ==
    \E r \in JunkKinds :
        /\ Emit(g, Junk(r))
        /\ UNCHANGED <<clientVars, proc, stdinOpen, wire, refreshes, mgrVars, libVars,
                       callVars, tpc, execVars, readerVars, histVars>>

\* the process closes its stdout and keeps running
ServerCloseStdout(g) ==
    /\ proc[g] = "running"
    /\ proc' = [proc EXCEPT ![g] = "eof"]
    /\ UNCHANGED <<clientVars, stdinOpen, wire, out, emitted, refreshes, mgrVars, libVars,
                   callVars, tpc, execVars, readerVars, histVars>>

\* the process dies
ServerExit(g) ==
    /\ proc[g] \in {"running", "eof"}
    /\ proc' = [proc EXCEPT ![g] = "exited"]
    /\ UNCHANGED <<clientVars, stdinOpen, wire, out, emitted, refreshes, mgrVars, libVars,
                   callVars, tpc, execVars, readerVars, histVars>>

\* ------------------------------------------------------------ Client.CallTool

Timeouts == {0, 200}

\* client.go:362-374  CallTool derives a deadline when timeout > 0 and calls tools/call
CallToolStart(t) ==
    \E timeout \in Timeouts :
        /\ tpc[t] = "idle"
        /\ tpc' = [tpc EXCEPT ![t] = "calltool"]
        /\ EnterCall(t, "tools/call", timeout > 0)
        /\ UNCHANGED <<clientVars, procVars, mgrVars, libVars, cdone, execVars, readerVars, histVars>>

\* client.go:375-412  CallTool returns call's error, or the rendered result
CallToolReturn(t) ==
    /\ tpc[t] = "calltool"
    /\ cpc[t] = "ret"
    /\ tpc' = [tpc EXCEPT ![t] = "done"]
    /\ UNCHANGED <<clientVars, procVars, mgrVars, libVars, callVars, execVars, readerVars, histVars>>

\* ----------------------------------------------------------- Client.Reconnect

\* client.go:416-422  the old process is done with: c.stdin.Close(),
\* c.cmd.Process.Kill(), c.cmd.Wait() (which closes the stdout pipe)
ReconnectKill(t) ==
    /\ tpc[t] = "kill"
    /\ stdinOpen' = [stdinOpen EXCEPT ![cur] = FALSE]
    /\ proc' = [proc EXCEPT ![cur] = "reaped"]
    /\ tpc' = [tpc EXCEPT ![t] = "wait"]
    /\ UNCHANGED <<clientVars, wire, out, emitted, refreshes, mgrVars, libVars, callVars,
                   execVars, readerVars, histVars>>

\* client.go:425  <-c.done
ReconnectWaitDone(t) ==
    /\ tpc[t] = "wait"
    /\ done[cur]
    /\ tpc' = [tpc EXCEPT ![t] = "start"]
    /\ UNCHANGED <<clientVars, procVars, mgrVars, libVars, callVars, execVars, readerVars,
                   histVars>>

\* client.go:428-430, 141-160  startProcess fails: a pipe or cmd.Start() fails
ReconnectStartFail(t) ==
    /\ tpc[t] = "start"
    /\ tpc' = [tpc EXCEPT ![t] = "recfail"]
    /\ UNCHANGED <<clientVars, procVars, mgrVars, libVars, callVars, execVars, readerVars,
                   histVars>>

\* client.go:428, 162-169, 432, 310-320  startProcess succeeds: the Client's
\* cmd, stdin, stdout, done and pending are replaced by fresh ones, alive is
\* set, a reader is started; then Initialize calls "initialize" under the
\* reconnect's 30 s context
ReconnectStart(t) ==
    LET g == cur + 1 IN
    /\ tpc[t] = "start"
    /\ cur < MaxGen
    /\ cur' = g
    /\ proc' = [proc EXCEPT ![g] = "running"]
    /\ stdinOpen' = [stdinOpen EXCEPT ![g] = TRUE]
    /\ pending' = [pending EXCEPT ![g] = EmptyMap]
    /\ done' = [done EXCEPT ![g] = FALSE]
    /\ alive' = TRUE
    /\ rpc' = [rpc EXCEPT ![g] = "read"]
    /\ tpc' = [tpc EXCEPT ![t] = "init"]
    /\ EnterCall(t, "initialize", TRUE)
    /\ UNCHANGED <<nextID, pendingMu, chan, onNotify, wire, out, emitted, refreshes,
                   mgrVars, libVars, cdone, execVars, rframe, rch, rmap, rrange, histVars>>

\* the generations whose process received the request of thread t's call
Asked(t) == {g \in Gens : [id |-> cid[t], method |-> cmethod[t]] \in wire[g]}

\* the result is a response that carries neither an RPC error nor isError
Succeeded(r) == r.kind = "resp" /\ r.frame.err = "none"

\* client.go:320-326, 432-437  "initialize" returned: on an error Reconnect
\* fails; otherwise notifications/initialized is written (a failed write is
\* ignored) and Reconnect succeeds
ReconnectInitReturn(t) ==
    /\ tpc[t] = "init"
    /\ cpc[t] = "ret"
    /\ IF Succeeded(cres[t])
       THEN /\ tpc' = [tpc EXCEPT ![t] = "recok"]
            /\ wire' = IF CanWrite(cur)
                       THEN [wire EXCEPT ![cur] = @ \cup {[id |-> 0, method |-> "notifications/initialized"]}]
                       ELSE wire
       ELSE /\ tpc' = [tpc EXCEPT ![t] = "recfail"]
            /\ UNCHANGED wire
    /\ inited' = IF Succeeded(cres[t]) THEN inited \cup Asked(t) ELSE inited
    /\ UNCHANGED <<clientVars, proc, stdinOpen, out, emitted, refreshes, mgrVars, libVars,
                   callVars, execVars, readerVars, sends, returns, atDeath, skips,
                   notified>>

\* one step of Reconnect on thread t
ReconnectStep(t) ==
    \/ ReconnectKill(t)
    \/ ReconnectWaitDone(t)
    \/ ReconnectStartFail(t)
    \/ ReconnectStart(t)
    \/ ReconnectInitReturn(t)

\* -------------------------------------------------------- Client.GracefulClose

\* client.go:465-467  Client.Close (or any caller) calls GracefulClose
ClientClose ==
    /\ gpc = "idle"
    /\ gpc' = "check"
    /\ UNCHANGED <<coreVars, exceptClose, wpc, gkilled, xpc, xtodo>>

\* client.go:442-444  if !c.alive.Load() { return nil }
CloseCheck ==
    /\ gpc = "check"
    /\ gpc' = IF ~alive THEN "returned" ELSE "closein"
    /\ UNCHANGED <<coreVars, exceptClose, wpc, gkilled, xpc, xtodo>>

\* client.go:447-453  c.stdin.Close(); the goroutine that sends the result of
\* c.cmd.Wait() to the done channel is started
CloseStdin ==
    /\ gpc = "closein"
    /\ stdinOpen' = [stdinOpen EXCEPT ![cur] = FALSE]
    /\ wpc' = "wait"
    /\ gpc' = "select"
    /\ UNCHANGED <<clientVars, proc, wire, out, emitted, refreshes, mgrVars, callVars,
                   tpc, execVars, readerVars, histVars, exceptClose, gkilled,
                   xpc, xtodo>>

\* client.go:452  c.cmd.Wait() returns once the process has exited (it closes
\* the stdout pipe), or at once with an error when it was waited for before;
\* the result is sent to the buffered done channel
WaitReturn ==
    /\ wpc = "wait"
    /\ proc[cur] \in {"exited", "reaped"}
    /\ proc' = [proc EXCEPT ![cur] = "reaped"]
    /\ wpc' = "sent"
    /\ UNCHANGED <<clientVars, stdinOpen, wire, out, emitted, refreshes, mgrVars,
                   callVars, tpc, execVars, readerVars, histVars, exceptClose, gpc,
                   gkilled, xpc, xtodo>>

\* client.go:456-457  case <-done: return nil
CloseSelectDone ==
    /\ gpc = "select"
    /\ wpc = "sent"
    /\ gpc' = "returned"
    /\ UNCHANGED <<coreVars, exceptClose, wpc, gkilled, xpc, xtodo>>

\* a Kill that leaves the process as it is
KilledNot(p) == p

\* client.go:460  c.cmd.Process.Kill(): a process that runs is killed; one
\* that has exited is left as it is (Kill returns an error)
Killed(p) == IF p \in {"running", "eof"} THEN "exited" ELSE p

\* client.go:458-460  case <-time.After(timeout): the timeout has elapsed (it
\* can at any moment, also when done is ready), the process is killed
CloseSelectTimeout ==
    /\ gpc = "select"
    /\ proc' = [proc EXCEPT ![cur] = Killed(@)]
    /\ gkilled' = TRUE
    /\ gpc' = "returned"
    /\ UNCHANGED <<clientVars, stdinOpen, wire, out, emitted, refreshes, mgrVars,
                   callVars, tpc, execVars, readerVars, histVars, exceptClose, wpc,
                   xpc, xtodo>>

\* one step of GracefulClose
CloseStep ==
    \/ CloseCheck
    \/ CloseStdin
    \/ CloseSelectDone
    \/ CloseSelectTimeout

\* ------------------------------------------------------------- Manager.Close

\* manager.go:183-187  Close takes the lock and ranges over m.clients
ManagerCloseStart ==
    /\ xpc = "idle"
    /\ xpc' = "loop"
    /\ xtodo' = mclients
    /\ UNCHANGED <<coreVars, exceptClose, gpc, wpc, gkilled>>

\* manager.go:187-189  the next client, in the map's order:
\* client.GracefulClose(5 * time.Second) is called
ManagerCloseCall ==
    \E s \in xtodo :
        /\ xpc = "loop"
        /\ gpc = "idle"
        /\ xtodo' = xtodo \ {s}
        /\ gpc' = "check"
        /\ xpc' = "closing"
        /\ UNCHANGED <<coreVars, exceptClose, wpc, gkilled>>

\* manager.go:189  GracefulClose has returned (its error is dropped)
ManagerCloseBack ==
    /\ xpc = "closing"
    /\ gpc = "returned"
    /\ xpc' = "loop"
    /\ UNCHANGED <<coreVars, exceptClose, gpc, wpc, gkilled, xtodo>>

\* manager.go:190-191  the loop is over: the lock is released, Close returns
ManagerCloseReturn ==
    /\ xpc = "loop"
    /\ xtodo = {}
    /\ xpc' = "returned"
    /\ UNCHANGED <<coreVars, exceptClose, gpc, wpc, gkilled, xtodo>>

\* ------------------------------------------------------------ MCPTool.Execute

\* tool.go:77, 87, 36-38  Execute calls CallTool with the tool's timeout, which
\* NewMCPTool made positive
ExecuteCallTool(t) ==
    /\ tpc' = [tpc EXCEPT ![t] = "calltool"]
    /\ ecalls' = [ecalls EXCEPT ![t] = @ + 1]
    /\ EnterCall(t, "tools/call", TRUE)

\* tool.go:68, 84  Execute calls Reconnect under a 30 s context
ExecuteReconnect(t) ==
    /\ tpc' = [tpc EXCEPT ![t] = "kill"]
    /\ erecs' = [erecs EXCEPT ![t] = @ + 1]

\* tool.go:62-77  Execute starts: a Client that is not alive is reconnected
\* first, a live one is called
ExecuteStart(t) ==
    /\ epc[t] = "idle"
    /\ tpc[t] = "idle"
    /\ IF alive
       THEN /\ epc' = [epc EXCEPT ![t] = "first"]
            /\ ExecuteCallTool(t)
            /\ UNCHANGED erecs
       ELSE /\ epc' = [epc EXCEPT ![t] = "pre"]
            /\ ExecuteReconnect(t)
            /\ UNCHANGED <<ecalls, cpc, cmethod, deadline, cres, cid>>
    /\ UNCHANGED <<clientVars, procVars, mgrVars, libVars, cdone, efirst, eres, readerVars,
                   histVars>>

\* a failed retry handled like the first failure
AfterRetryAgain == "first"

\* where Execute goes when the call made after the reconnect has failed too
\* (tool.go:87: its result is returned)
AfterRetry == "done"

\* the call made although the reconnect failed
AfterPreFailCall == "first"

\* Execute started over after the failed reconnect
AfterPreFailRestart == "idle"

\* where Execute goes when the reconnect made before the call has failed
\* (tool.go:68-74: the error is returned)
AfterPreFail == "done"

\* what Execute returns for what a CallTool returned (tool.go:87-92)
CallToolResult(r) == IF Succeeded(r) THEN "result" ELSE "callerr"

\* tool.go:68-77  the reconnect made before the call returned: its error is
\* returned as "server is down and reconnect failed", or CallTool is called
ExecutePreReturn(t) ==
    LET go == IF tpc[t] = "recok" THEN "first" ELSE AfterPreFail IN
    /\ epc[t] = "pre"
    /\ tpc[t] \in {"recok", "recfail"}
    /\ epc' = [epc EXCEPT ![t] = go]
    /\ IF go = "first"
       THEN /\ ExecuteCallTool(t)
            /\ UNCHANGED eres
       ELSE /\ tpc' = [tpc EXCEPT ![t] = "idle"]
            /\ eres' = [eres EXCEPT ![t] = IF go = "done" THEN "down" ELSE @]
            /\ UNCHANGED <<ecalls, cpc, cmethod, deadline, cres, cid>>
    /\ UNCHANGED <<clientVars, procVars, mgrVars, libVars, cdone, erecs, efirst, readerVars,
                   histVars>>

\* tool.go:78-80  the first call returned an error and the Client is not alive
DiedDuringCall(t) == ~Succeeded(cres[t]) /\ ~alive

\* tool.go:77-92  the first CallTool returned: a result is returned; after an
\* error a Client that is not alive is reconnected, and the error of a live
\* one is returned
ExecuteFirstReturn(t) ==
    /\ epc[t] = "first"
    /\ tpc[t] = "calltool"
    /\ cpc[t] = "ret"
    /\ efirst' = [efirst EXCEPT ![t] = cres[t]]
    /\ IF DiedDuringCall(t)
       THEN /\ epc' = [epc EXCEPT ![t] = "mid"]
            /\ ExecuteReconnect(t)
            /\ UNCHANGED eres
       ELSE /\ epc' = [epc EXCEPT ![t] = "done"]
            /\ tpc' = [tpc EXCEPT ![t] = "idle"]
            /\ eres' = [eres EXCEPT ![t] = CallToolResult(cres[t])]
            /\ UNCHANGED erecs
    /\ UNCHANGED <<clientVars, procVars, mgrVars, libVars, callVars, ecalls, readerVars,
                   histVars>>

\* tool.go:84-87  the reconnect made after the failed call returned: its error
\* is returned as "server crashed", or CallTool is called once more
ExecuteMidReturn(t) ==
    /\ epc[t] = "mid"
    /\ tpc[t] \in {"recok", "recfail"}
    /\ IF tpc[t] = "recok"
       THEN /\ epc' = [epc EXCEPT ![t] = "second"]
            /\ ExecuteCallTool(t)
            /\ UNCHANGED eres
       ELSE /\ epc' = [epc EXCEPT ![t] = "done"]
            /\ tpc' = [tpc EXCEPT ![t] = "idle"]
            /\ eres' = [eres EXCEPT ![t] = "crashed"]
            /\ UNCHANGED <<ecalls, cpc, cmethod, deadline, cres, cid>>
    /\ UNCHANGED <<clientVars, procVars, mgrVars, libVars, cdone, erecs, efirst, readerVars,
                   histVars>>

\* tool.go:87  the second CallTool returned: Execute returns what it returned
ExecuteSecondReturn(t) ==
    /\ epc[t] = "second"
    /\ tpc[t] = "calltool"
    /\ cpc[t] = "ret"
    /\ epc' = [epc EXCEPT ![t] = AfterRetry]
    /\ tpc' = [tpc EXCEPT ![t] = IF AfterRetry = "done" THEN "idle" ELSE "calltool"]
    /\ eres' = [eres EXCEPT ![t] = IF AfterRetry = "done" THEN CallToolResult(cres[t]) ELSE @]
    /\ UNCHANGED <<clientVars, procVars, mgrVars, libVars, callVars, ecalls, erecs, efirst,
                   readerVars, histVars>>

\* one step of Execute on thread t, its Reconnect included
ExecuteStep(t) ==
    \/ ExecuteStart(t)
    \/ ExecutePreReturn(t)
    \/ ExecuteFirstReturn(t)
    \/ ExecuteMidReturn(t)
    \/ ExecuteSecondReturn(t)
    \/ ReconnectStep(t)

\* what a server can answer to request f: a result, an RPC error and, to a
\* tools/call, a result with isError set (client.go:408-410)
AnswerKinds(f) ==
    IF f.method = "tools/call" THEN {"none", "rpc", "tool"} ELSE {"none", "rpc"}

\* a server that writes no more answers than it has received requests, each
\* the answer to one of them
ServerAnswer(g) ==
    \E f \in wire[g] : \E e \in AnswerKinds(f) :
        /\ f.id # 0
        /\ emitted[g] < Cardinality({r \in wire[g] : r.id # 0})
        /\ Emit(g, Resp(f.id, e))
        /\ UNCHANGED <<clientVars, proc, stdinOpen, wire, refreshes, mgrVars, libVars,
                       callVars, tpc, execVars, readerVars, histVars>>

\* a server that answers the requests it has received with results
ServerResult(g) ==
    \E f \in wire[g] :
        /\ f.id # 0
        /\ emitted[g] < Cardinality({r \in wire[g] : r.id # 0})
        /\ Emit(g, Resp(f.id, "none"))
        /\ UNCHANGED <<clientVars, proc, stdinOpen, wire, refreshes, mgrVars, libVars,
                       callVars, tpc, execVars, readerVars, histVars>>

\* ------------------------------------------------------- Manager.ConnectAll

\* a disabled server connected like the others
SkippedNever(cfg) == FALSE

\* manager.go:52-55  a disabled server is skipped
Skipped(cfg) == cfg.disabled

\* manager.go:51-59  the range loop takes the next name, in the map's
\* (arbitrary) order: a disabled server is skipped, the config of another is
\* stored and connectServer is called
ConnectAllNext ==
    \E s \in mtodo :
        /\ mpc = "loop"
        /\ mtodo' = mtodo \ {s}
        /\ IF Skipped(servers[s])
           THEN UNCHANGED <<mcur, mpc, mconfigs>>
           ELSE /\ mconfigs' = mconfigs \cup {s}
                /\ mcur' = s
                /\ mpc' = "new"
        /\ UNCHANGED <<clientVars, procVars, libVars, registry, registered, servers, mclients,
                       spawned, closed, allTools, callVars, tpc, execVars, readerVars,
                       histVars>>

\* the loop abandoned at the first failure
AfterFailureStop(todo) == {}

\* manager.go:60-63  what is left to visit after connectServer returned an
\* error: the loop continues
AfterFailure(todo) == todo

\* manager.go:80-83  NewClient: the process is started, or the error is
\* returned to ConnectAll
ConnectNewClient ==
    /\ mpc = "new"
    /\ IF servers[mcur].does = "nostart"
       THEN /\ mpc' = "loop"
            /\ mcur' = 0
            /\ mtodo' = AfterFailure(mtodo)
            /\ UNCHANGED spawned
       ELSE /\ spawned' = spawned \cup {mcur}
            /\ mpc' = "init"
            /\ UNCHANGED <<mcur, mtodo>>
    /\ UNCHANGED <<clientVars, procVars, libVars, registry, registered, servers, mconfigs,
                   mclients, closed, allTools, callVars, tpc, execVars, readerVars,
                   histVars>>

\* manager.go:95-101  Initialize under the 30 s context: on an error the
\* Client is closed and the error returned
ConnectInitialize ==
    /\ mpc = "init"
    /\ IF servers[mcur].does = "noinit"
       THEN /\ closed' = closed \cup {mcur}
            /\ mpc' = "loop"
            /\ mcur' = 0
            /\ mtodo' = AfterFailure(mtodo)
       ELSE /\ mpc' = "list"
            /\ UNCHANGED <<closed, mcur, mtodo>>
    /\ UNCHANGED <<clientVars, procVars, libVars, registry, registered, servers, mconfigs,
                   mclients, spawned, allTools, callVars, tpc, execVars, readerVars,
                   histVars>>

\* manager.go:119-123  the MCPTools made of the tool infos ListTools returned
ToolsOf(s, infos) == {[server |-> s, info |-> k] : k \in infos}

\* manager.go:104-125, 65  ListTools: on an error the Client is closed and the
\* error returned; else the Client is stored in m.clients and ConnectAll
\* appends the server's MCPTools to allTools
ConnectListTools ==
    /\ mpc = "list"
    /\ IF servers[mcur].does = "nolist"
       THEN /\ closed' = closed \cup {mcur}
            /\ mtodo' = AfterFailure(mtodo)
            /\ UNCHANGED <<mclients, allTools>>
       ELSE /\ mclients' = mclients \cup {mcur}
            /\ allTools' = allTools \cup ToolsOf(mcur, servers[mcur].offers)
            /\ UNCHANGED <<closed, mtodo>>
    /\ mpc' = "loop"
    /\ mcur' = 0
    /\ UNCHANGED <<clientVars, procVars, libVars, registry, registered, servers, mconfigs,
                   spawned, callVars, tpc, execVars, readerVars, histVars>>

\* manager.go:69  the loop is over: ConnectAll returns allTools
ConnectAllReturn ==
    /\ mpc = "loop"
    /\ mtodo = {}
    /\ mpc' = "returned"
    /\ UNCHANGED <<clientVars, procVars, libVars, registry, registered, servers, mtodo, mcur,
                   mconfigs, mclients, spawned, closed, allTools, callVars, tpc,
                   execVars, readerVars, histVars>>

\* ------------------------------------------------------ Manager.refreshTools

CatalogNames == 1 .. MaxCatalog

\* the server's catalog changes (the server then sends list_changed)
CatalogChange ==
    \E c \in SUBSET CatalogNames :
        /\ c # catalog
        /\ catalog' = c
        /\ UNCHANGED <<coreVars, exceptReg, listed, regtools, fpc, ftodo>>

\* the registry after Register(tool): the tool is stored under its qualified
\* name, replacing a tool of that name
Register(reg, tool) == reg \cup {tool}

\* manager.go:129-143  refreshTools with the registry set: ListTools under
\* the 15 s context returns the server's catalog, or an error and refreshTools
\* returns
RefreshList ==
    /\ fpc = "idle"
    /\ registry
    /\ \E ok \in BOOLEAN :
          IF ok THEN /\ listed' = catalog
                     /\ ftodo' = catalog
                     /\ fpc' = "register"
                ELSE UNCHANGED <<listed, ftodo, fpc>>
    /\ UNCHANGED <<coreVars, exceptReg, catalog, regtools>>

\* manager.go:146-150  one iteration of the loop over toolInfos: the MCPTool
\* made of the info is registered
RefreshRegister ==
    \E k \in ftodo :
        /\ fpc = "register"
        /\ regtools' = Register(regtools, [server |-> 1, info |-> k])
        /\ ftodo' = ftodo \ {k}
        /\ UNCHANGED <<coreVars, exceptReg, catalog, listed, fpc>>

\* manager.go:152-155  the loop is over: refreshTools returns
RefreshDone ==
    /\ fpc = "register"
    /\ ftodo = {}
    /\ fpc' = "idle"
    /\ UNCHANGED <<coreVars, exceptReg, catalog, listed, regtools, ftodo>>

\* ----------------------------------------------------------- Client.ListTools

\* the inputSchema of a tool in the JSON of a result: null or an object
JSONSchemas == {"null", "object"}

\* a tool in the JSON of a tools/list result
JSONTools == [name : CatalogNames, inputSchema : JSONSchemas]

\* the sequences of at most n elements of S
SeqUpTo(S, n) == UNION {[1 .. k -> S] : k \in 0 .. n}

\* a tools/list result as the server writes it: nextCursor 0 is the empty
\* (or absent) cursor
Cursors == 0 .. MaxPage
JSONPages == [tools : SeqUpTo(JSONTools, MaxPage), nextCursor : Cursors]

\* client.go:39-43, 346-349  json.Unmarshal into MCPToolInfo: a null
\* inputSchema leaves the map nil
DecodeTool(j) ==
    [name |-> j.name, schema |-> IF j.inputSchema = "null" THEN "nil" ELSE "map"]

DecodeTools(js) == [i \in 1 .. Len(js) |-> DecodeTool(js[i])]

\* the page's tools put in front
CollectInFront(all, tools) == tools \o all

\* client.go:351  allTools = append(allTools, toolsResult.Tools...)
Collect(all, tools) == all \o tools

\* client.go:330-332  ListTools starts
ListToolsStart ==
    /\ lpc = "idle"
    /\ lpc' = "call"
    /\ lcursor' = 0
    /\ lall' = <<>>
    /\ UNCHANGED <<coreVars, exceptList, lsent, lgot, lret, lmade>>

\* the tools collected so far returned with the error
FailedPartial(all, e) == [tools |-> all, err |-> e]

\* client.go:342, 347  return nil, err
Failed(all, e) == [tools |-> <<>>, err |-> e]

\* client.go:335-343  one iteration whose call fails (an RPC error, the ctx,
\* a write error, the server closed): the error is returned
ListToolsCallFails ==
    /\ lpc = "call"
    /\ lsent' = Append(lsent, lcursor)
    /\ lret' = Failed(lall, "call")
    /\ lpc' = "done"
    /\ UNCHANGED <<coreVars, exceptList, lcursor, lall, lgot, lmade>>

\* client.go:335-349  one iteration whose result is not a tools/list result:
\* the parse error is returned
ListToolsParseFails ==
    /\ lpc = "call"
    /\ lsent' = Append(lsent, lcursor)
    /\ lret' = Failed(lall, "parse")
    /\ lpc' = "done"
    /\ UNCHANGED <<coreVars, exceptList, lcursor, lall, lgot, lmade>>

\* client.go:335-358  one iteration whose call returns a page: the cursor is
\* sent when it is not empty, the page's tools are appended, and ListTools
\* returns allTools when the page has no next cursor (a server sends at most
\* MaxFrames pages here)
ListToolsPage ==
    \E page \in JSONPages :
        LET all == Collect(lall, DecodeTools(page.tools)) IN
        /\ lpc = "call"
        /\ page.nextCursor # 0 => Len(lgot) + 1 < MaxFrames
        /\ lsent' = Append(lsent, lcursor)
        /\ lgot' = Append(lgot, page)
        /\ lall' = all
        /\ IF page.nextCursor = 0
           THEN /\ lret' = [tools |-> all, err |-> "none"]
                /\ lpc' = "done"
                /\ UNCHANGED lcursor
           ELSE /\ lcursor' = page.nextCursor
                /\ UNCHANGED <<lret, lpc>>
        /\ UNCHANGED <<coreVars, exceptList, lmade>>

\* the schema of the info kept as it is
NewMCPToolBare(info) == [toolName |-> info.name, inputSchema |-> info.schema]

\* tool.go:22-48  NewMCPTool: a nil schema becomes {"type":"object","properties":{}}
NewMCPTool(info) ==
    [toolName |-> info.name,
     inputSchema |-> IF info.schema = "nil" THEN "default" ELSE info.schema]

\* manager.go:104-123, 137-150  the caller of a ListTools that succeeded makes
\* an MCPTool of every info
MakeTools ==
    /\ lpc = "done"
    /\ lret.err = "none"
    /\ lmade' = [i \in 1 .. Len(lret.tools) |-> NewMCPTool(lret.tools[i])]
    /\ lpc' = "made"
    /\ UNCHANGED <<coreVars, exceptList, lcursor, lall, lsent, lgot, lret>>

\* ------------------------------------------------- Client.CallTool's output

\* strings are sequences of pieces; the texts a block can carry
Texts == {<<>>, <<"boom">>, <<"a", "b">>}

\* client.go:56-61  a content block of a tools/call result
Blocks == [type : {"text", "image", "resource"}, text : Texts, data : Texts,
           mimeType : {<<>>, <<"image/png">>}]

\* client.go:63-66  a tools/call result
CallResults == [content : SeqUpTo(Blocks, MaxBlocks), isError : BOOLEAN]

\* client.go:394-399  the placeholder written for an image block:
\* "[image: %s, %d bytes base64]" of the mime type ("image/unknown" when it
\* is empty) and len(content.Data)
ImagePlaceholder(b) ==
    <<"[image: ">> \o (IF b.mimeType = <<>> THEN <<"image/unknown">> ELSE b.mimeType)
        \o <<", ", ToString(Len(b.data)), " bytes base64]">>

\* client.go:390-403  what the switch writes for block b
WriteBlock(b) ==
    IF b.type = "text" THEN b.text
    ELSE IF b.type = "image" THEN ImagePlaceholder(b)
    ELSE IF b.text # <<>> THEN b.text ELSE <<>>

\* a newline written before every block
SeparatorAlways(i) == <<"\n">>

\* client.go:387-389  what is written before block i (counted from 1)
Separator(i) == IF i > 1 THEN <<"\n">> ELSE <<>>

\* client.go:374-385  the call failed, or its result is no tools/call result:
\* CallTool returns the error
OutputCallFails ==
    /\ kpc = "idle"
    /\ \E e \in {"call", "parse"} : kret' = [result |-> <<>>, err |-> <<e>>]
    /\ kpc' = "done"
    /\ UNCHANGED <<coreVars, exceptOut, kresult, ki, ksb>>

\* client.go:374-385  the call returned a result, which is unmarshalled
OutputStart ==
    \E r \in CallResults :
        /\ kpc = "idle"
        /\ kresult' = r
        /\ ki' = 0
        /\ ksb' = <<>>
        /\ kpc' = "loop"
        /\ UNCHANGED <<coreVars, exceptOut, kret>>

\* client.go:386-404  one iteration of the loop over callResult.Content
OutputBlock ==
    /\ kpc = "loop"
    /\ ki < Len(kresult.content)
    /\ ksb' = ksb \o Separator(ki + 1) \o WriteBlock(kresult.content[ki + 1])
    /\ ki' = ki + 1
    /\ UNCHANGED <<coreVars, exceptOut, kpc, kresult, kret>>

\* a result's isError never looked at
FlaggedNever(r) == FALSE

\* client.go:408  callResult.IsError
Flagged(r) == r.isError

\* client.go:407-412  the loop is over: combined is returned as the result,
\* or inside the error "mcp tool error: %s" when the result is flagged
OutputReturn ==
    /\ kpc = "loop"
    /\ ki = Len(kresult.content)
    /\ kret' = IF Flagged(kresult)
               THEN [result |-> <<>>, err |-> <<"mcp tool error: ">> \o ksb]
               ELSE [result |-> ksb, err |-> <<>>]
    /\ kpc' = "done"
    /\ UNCHANGED <<coreVars, exceptOut, kresult, ki, ksb>>

\* ------------------------------------------------------------ limitedBuffer

\* the goroutines that copy a process's stderr into the buffer, and the
\* thread that reads it
BufWriters == 1 .. NumCallers
BufReader == NumCallers + 1
BufThreads == BufWriters \cup {BufReader}

\* the byte slices a Write is given: up to one byte more than the capacity
Bytes == {"x", "y"}
Chunks == SeqUpTo(Bytes, BufCap + 1)

\* client.go:106-107  Write(p): b.mu.Lock() (at most MaxFrames Writes here)
BufWriteLock(w) ==
    \E p \in Chunks :
        /\ bpc[w] = "idle"
        /\ bmu = 0
        /\ Len(bwritten) < MaxFrames
        /\ bmu' = w
        /\ bp' = [bp EXCEPT ![w] = p]
        /\ bpc' = [bpc EXCEPT ![w] = "append"]
        /\ UNCHANGED <<coreVars, exceptBuf, bdata, bwritten, bseen>>

\* client.go:109  b.data = append(b.data, p...)
BufAppend(w) ==
    /\ bpc[w] = "append"
    /\ bdata' = bdata \o bp[w]
    /\ bwritten' = bwritten \o bp[w]
    /\ bpc' = [bpc EXCEPT ![w] = "trim"]
    /\ UNCHANGED <<coreVars, exceptBuf, bmu, bp, bseen>>

\* the first max bytes kept
TrimmedFront(d, max) == IF Len(d) > max THEN SubSeq(d, 1, max) ELSE d

\* client.go:110-112  a slice longer than max is cut to its last max bytes
Trimmed(d, max) == IF Len(d) > max THEN SubSeq(d, Len(d) - max + 1, Len(d)) ELSE d

\* client.go:110-113, 108  the trim, the return and the deferred Unlock
BufTrim(w) ==
    /\ bpc[w] = "trim"
    /\ bdata' = Trimmed(bdata, BufCap)
    /\ bmu' = 0
    /\ bpc' = [bpc EXCEPT ![w] = "idle"]
    /\ UNCHANGED <<coreVars, exceptBuf, bp, bwritten, bseen>>

\* client.go:117-118  String(): b.mu.Lock()
BufStringLock ==
    /\ bpc[BufReader] = "idle"
    /\ bmu = 0
    /\ bmu' = BufReader
    /\ bpc' = [bpc EXCEPT ![BufReader] = "read"]
    /\ UNCHANGED <<coreVars, exceptBuf, bdata, bp, bwritten, bseen>>

\* client.go:119-120  string(b.data) is returned and the mutex unlocked
BufStringRead ==
    /\ bpc[BufReader] = "read"
    /\ bseen' = [data |-> bdata, written |-> bwritten]
    /\ bmu' = 0
    /\ bpc' = [bpc EXCEPT ![BufReader] = "idle"]
    /\ UNCHANGED <<coreVars, exceptBuf, bdata, bp, bwritten>>

\* ------------------------------------------------------ Manager.ServerStatus

\* client.go:190  the reader of server s's Client ends: alive is cleared
ClientDies(s) ==
    /\ salive[s]
    /\ salive' = [salive EXCEPT ![s] = FALSE]
    /\ UNCHANGED <<coreVars, exceptStatus, sstderr, spc, stodo, scur, sentry, status>>

\* client.go:167  an Execute reconnects server s's Client: startProcess sets alive
ClientRevived(s) ==
    /\ ~salive[s]
    /\ salive' = [salive EXCEPT ![s] = TRUE]
    /\ UNCHANGED <<coreVars, exceptStatus, sstderr, spc, stodo, scur, sentry, status>>

\* manager.go:158-162  ServerStatus starts: the read lock is taken, the map made
StatusStart ==
    /\ spc = "idle"
    /\ spc' = "loop"
    /\ stodo' = mclients
    /\ status' = <<>>
    /\ UNCHANGED <<coreVars, exceptStatus, salive, sstderr, scur, sentry>>

\* manager.go:163-166  the loop takes the next client, in the map's order:
\* the entry is made with "alive": client.IsAlive()
StatusFirst ==
    \E s \in stodo :
        /\ spc = "loop"
        /\ stodo' = stodo \ {s}
        /\ scur' = s
        /\ sentry' = [alive |-> salive[s]]
        /\ spc' = "second"
        /\ UNCHANGED <<coreVars, exceptStatus, salive, sstderr, status>>

\* manager.go:167  the value of the second client.IsAlive()
AliveAgain(s) == salive[s]

\* manager.go:167, 177  if !client.IsAlive(): a live Client's entry is stored
StatusSecond ==
    /\ spc = "second"
    /\ IF AliveAgain(scur)
       THEN /\ status' = status @@ (scur :> sentry)
            /\ scur' = 0
            /\ spc' = "loop"
       ELSE /\ spc' = "stderr"
            /\ UNCHANGED <<status, scur>>
    /\ UNCHANGED <<coreVars, exceptStatus, salive, sstderr, stodo, sentry>>

\* manager.go:171-173  stderr longer than 500 bytes is cut to its last 500
StderrTail(d, n) == IF Len(d) > n THEN SubSeq(d, Len(d) - n + 1, Len(d)) ELSE d

\* manager.go:168-177  the stderr of a Client that is not alive is read and,
\* when it is not empty, its tail stored as last_stderr; the entry is stored
StatusStderr ==
    LET stderr == sstderr[scur] IN
    /\ spc = "stderr"
    /\ status' = status @@ (scur :>
                      IF stderr # <<>>
                      THEN [alive |-> sentry.alive,
                            last_stderr |-> StderrTail(stderr, StatusTail)]
                      ELSE sentry)
    /\ scur' = 0
    /\ spc' = "loop"
    /\ UNCHANGED <<coreVars, exceptStatus, salive, sstderr, stodo, sentry>>

\* manager.go:179  the loop is over: the map is returned, the lock released
StatusReturn ==
    /\ spc = "loop"
    /\ stodo = {}
    /\ spc' = "returned"
    /\ UNCHANGED <<coreVars, exceptStatus, salive, sstderr, stodo, scur, sentry, status>>

\* ------------------------------------------------------------ the write path

\* the goroutines that write: the callers in call, one more in notify
Notifier == NumCallers + 1
InWriters == Callers \cup {Notifier}

\* a Lock that does not wait
WriteMuIgnored(mu) == TRUE

\* client.go:271, 304  c.writeMu.Lock() returns when the mutex is free
WriteMuFree(mu) == mu = 0

\* client.go:260-264, 271 (call), 302-304 (notify)  the frame is marshalled,
\* '\n' appended; the thread asks for c.writeMu
WriteBegin(t) ==
    /\ inpc[t] = "idle"
    /\ inbegun < MaxFrames
    /\ inbegun' = inbegun + 1
    /\ inframe' = [inframe EXCEPT ![t] = [kind |-> IF t = Notifier THEN "notify" ELSE "call",
                                          n |-> inbegun + 1]]
    /\ inpc' = [inpc EXCEPT ![t] = "lock"]
    /\ UNCHANGED <<coreVars, exceptWrite, writeMu, inleft, inbytes, inopen>>

\* client.go:271, 304  c.writeMu.Lock()
WriteLock(t) ==
    /\ inpc[t] = "lock"
    /\ WriteMuFree(writeMu)
    /\ writeMu' = t
    /\ inleft' = [inleft EXCEPT ![t] = FrameParts]
    /\ inpc' = [inpc EXCEPT ![t] = "writing"]
    /\ UNCHANGED <<coreVars, exceptWrite, inframe, inbytes, inopen, inbegun>>

\* client.go:272, 305  c.stdin.Write(data): the pipe takes the next part of
\* the frame (one write system call)
WritePart(t) ==
    /\ inpc[t] = "writing"
    /\ inopen
    /\ inleft[t] > 0
    /\ inbytes' = Append(inbytes, [frame |-> inframe[t], part |-> FrameParts - inleft[t] + 1])
    /\ inleft' = [inleft EXCEPT ![t] = @ - 1]
    /\ UNCHANGED <<coreVars, exceptWrite, writeMu, inpc, inframe, inopen, inbegun>>

\* client.go:272, 305  Write returns: the whole frame is written, or the pipe
\* is broken or closed and Write fails
WriteReturn(t) ==
    /\ inpc[t] = "writing"
    /\ inleft[t] = 0 \/ ~inopen
    /\ inpc' = [inpc EXCEPT ![t] = "unlock"]
    /\ UNCHANGED <<coreVars, exceptWrite, writeMu, inleft, inframe, inbytes, inopen, inbegun>>

\* client.go:273, 306  c.writeMu.Unlock()
WriteUnlock(t) ==
    /\ inpc[t] = "unlock"
    /\ writeMu' = 0
    /\ inpc' = [inpc EXCEPT ![t] = "idle"]
    /\ UNCHANGED <<coreVars, exceptWrite, inleft, inframe, inbytes, inopen, inbegun>>

\* the process exits, or its stdin is closed (client.go:420, 447): the pipe
\* takes no more
PipeBreaks ==
    /\ inopen
    /\ inopen' = FALSE
    /\ UNCHANGED <<coreVars, exceptWrite, writeMu, inpc, inleft, inframe, inbytes, inbegun>>

\* ------------------------------------------------------ the per-call timeout

\* the values of an int (ServerConfig.CallTimeout, manager.go:22)
Ints == -(2 ^ (DurationBits - 1)) .. (2 ^ (DurationBits - 1) - 1)

\* two's complement arithmetic of the width of a time.Duration: the result of
\* an operation is the value modulo 2^DurationBits, in the signed range
Wrap(n) ==
    LET m == 2 ^ DurationBits
        r == n % m
    IN IF r >= m \div 2 THEN r - m ELSE r

\* manager.go:114, 143  time.Duration(cfg.CallTimeout) * time.Second
Seconds(n) == Wrap(n * Second)

\* manager.go:115-117, 144-146, tool.go:36-38  if callTimeout <= 0 {
\* callTimeout = 60 * time.Second }
OrDefault(d) == IF d <= 0 THEN Seconds(DefaultSeconds) ELSE d

\* manager.go:114-121, tool.go:22, 36-46  connectServer makes the tools of a
\* server that listed them: the timeout from the configuration, NewMCPTool
ConnectMakesTool ==
    LET callTimeout == OrDefault(Seconds(tcfg)) IN
    /\ tmade' = tmade \cup {[via |-> "connect", callTimeout |-> OrDefault(callTimeout)]}
    /\ UNCHANGED <<coreVars, exceptTimeout, tcfg>>

\* manager.go:143-150, tool.go:22, 36-46  refreshTools makes the tools listed
\* anew: the timeout from the configuration, NewMCPTool
RefreshMakesTool ==
    LET callTimeout == OrDefault(Seconds(tcfg)) IN
    /\ tmade' = tmade \cup {[via |-> "refresh", callTimeout |-> OrDefault(callTimeout)]}
    /\ UNCHANGED <<coreVars, exceptTimeout, tcfg>>

\* ------------------------------------------------------------ MCPTool.Name

\* the characters names are made of here: a letter, two of the characters
\* sanitizeName replaces, and the one that replaces them
Chars == {"a", "-", ".", "_"}

\* the names of at most n characters
Strings(n) == UNION {[1 .. k -> Chars] : k \in 0 .. n}

\* manager.go:194-197  sanitizeName: "-", "." and " " become "_"
sanitizeName(name) ==
    [i \in 1 .. Len(name) |-> IF name[i] \in {"-", ".", " "} THEN "_" ELSE name[i]]

\* tool.go:50-52, manager.go:86, 121  the Name() of the MCPTool connectServer
\* makes for tool `tool` of server `server`: "mcp_%s_%s" of the sanitized
\* server name and the tool name
QualifiedName(server, tool) ==
    <<"m", "c", "p", "_">> \o sanitizeName(server) \o <<"_">> \o tool

\* the MCPTools of the two pairs are made and named
NameTools ==
    /\ qnames = <<>>
    /\ qnames' = [i \in 1 .. 2 |-> QualifiedName(qpair[i].server, qpair[i].tool)]
    /\ UNCHANGED <<coreVars, exceptNames, qpair>>

\* ------------------------------------------------------------ specifications

\* ListTools is not running
ListIdle ==
    /\ lpc = "idle"
    /\ lcursor = 0
    /\ lall = <<>>
    /\ lsent = <<>>
    /\ lgot = <<>>
    /\ lret = [tools |-> <<>>, err |-> "none"]
    /\ lmade = <<>>

\* CallTool is not running
OutIdle ==
    /\ kpc = "idle"
    /\ kresult = [content |-> <<>>, isError |-> FALSE]
    /\ ki = 0
    /\ ksb = <<>>
    /\ kret = [result |-> <<>>, err |-> <<>>]

\* client.go:102-104  newLimitedBuffer: an empty buffer
BufIdle ==
    /\ bdata = <<>>
    /\ bmu = 0
    /\ bpc = [w \in BufThreads |-> "idle"]
    /\ bp = [w \in BufThreads |-> <<>>]
    /\ bwritten = <<>>
    /\ bseen = [data |-> <<>>, written |-> <<>>]

\* ServerStatus is not running
StatusIdle ==
    /\ salive = [s \in Servers |-> FALSE]
    /\ sstderr = [s \in Servers |-> <<>>]
    /\ spc = "idle"
    /\ stodo = {}
    /\ scur = 0
    /\ sentry = [alive |-> FALSE]
    /\ status = <<>>

\* neither GracefulClose nor Manager.Close has been called
CloseIdle ==
    /\ gpc = "idle"
    /\ wpc = "none"
    /\ gkilled = FALSE
    /\ xpc = "idle"
    /\ xtodo = {}

\* no tool was given a timeout
TimeoutIdle ==
    /\ tcfg = 0
    /\ tmade = {}

\* nobody writes
WriteIdle ==
    /\ writeMu = 0
    /\ inpc = [t \in InWriters |-> "idle"]
    /\ inleft = [t \in InWriters |-> 0]
    /\ inframe = [t \in InWriters |-> [kind |-> "none", n |-> 0]]
    /\ inbytes = <<>>
    /\ inopen = TRUE
    /\ inbegun = 0

\* no names
NamesIdle ==
    /\ qpair = <<>>
    /\ qnames = <<>>

\* no refresh, no catalog
RegIdle ==
    /\ catalog = {}
    /\ listed = "none"
    /\ regtools = {}
    /\ fpc = "idle"
    /\ ftodo = {}

\* the parts of the state a specification about part k does not use
Rest(k) ==
    /\ IF k = "registry" THEN TRUE ELSE RegIdle
    /\ IF k = "names" THEN TRUE ELSE NamesIdle
    /\ IF k = "list" THEN TRUE ELSE ListIdle
    /\ IF k = "output" THEN TRUE ELSE OutIdle
    /\ IF k = "buffer" THEN TRUE ELSE BufIdle
    /\ IF k = "status" THEN TRUE ELSE StatusIdle
    /\ CloseIdle
    /\ IF k = "timeout" THEN TRUE ELSE TimeoutIdle
    /\ WriteIdle

\* A Client that NewClient has started (client.go:123-139, 162-169) and
\* connectServer has initialized and given its handler (manager.go:87-101);
\* reg: m.registry is set; p: its process is "running", or has "exited" and
\* readLoop has ended (client.go:189-202), or "none": no Client was made yet
ClientState(reg, p) ==
    /\ alive = (p = "running")
    /\ nextID = 0
    /\ cur = 0
    /\ pending = [g \in Gens |-> EmptyMap]
    /\ done = [g \in Gens |-> g = 0 /\ p = "exited"]
    /\ pendingMu = 0
    /\ chan = [i \in IDs |-> <<>>]
    /\ onNotify = TRUE
    /\ proc = [g \in Gens |-> IF g = 0 THEN p ELSE "none"]
    /\ stdinOpen = [g \in Gens |-> g = 0 /\ p # "none"]
    /\ wire = [g \in Gens |-> {}]
    /\ out = [g \in Gens |-> <<>>]
    /\ emitted = [g \in Gens |-> 0]
    /\ refreshes = 0
    /\ registry = reg
    /\ registered = {}
    /\ cpc = [t \in Threads |-> "idle"]
    /\ cid = [t \in Threads |-> 0]
    /\ cmethod = [t \in Threads |-> ""]
    /\ cdone = [t \in Threads |-> 0]
    /\ cres = [t \in Threads |-> NoResult]
    /\ deadline = [t \in Threads |-> FALSE]
    /\ tpc = [t \in Threads |-> "idle"]
    /\ epc = [t \in Threads |-> "idle"]
    /\ ecalls = [t \in Threads |-> 0]
    /\ erecs = [t \in Threads |-> 0]
    /\ efirst = [t \in Threads |-> NoResult]
    /\ eres = [t \in Threads |-> "none"]
    /\ rpc = [g \in Gens |-> IF g # 0 \/ p = "none" THEN "none"
                               ELSE IF p = "running" THEN "read" ELSE "exit"]
    /\ rframe = [g \in Gens |-> NoFrame]
    /\ rch = [g \in Gens |-> 0]
    /\ rmap = [g \in Gens |-> 0]
    /\ rrange = [g \in Gens |-> {}]
    /\ sends = [i \in IDs |-> 0]
    /\ returns = [i \in 0 .. MaxID |-> 0]
    /\ atDeath = {}
    /\ skips = 0
    /\ notified = <<>>
    /\ inited = IF p = "none" THEN {} ELSE {0}

\* manager.go:34-39, 48-49  a new Manager whose ConnectAll is called with c
ManagerFresh(c) ==
    /\ servers = c
    /\ mtodo = Servers
    /\ mcur = 0
    /\ mpc = "loop"
    /\ mconfigs = {}
    /\ mclients = {}
    /\ spawned = {}
    /\ closed = {}
    /\ allTools = {}

\* a configuration whose only enabled server is server 1, which works
OneServer == [s \in Servers |-> [disabled |-> s # 1, does |-> "ok", offers |-> ToolNames]]

\* manager.go:48-70  the Manager after ConnectAll(OneServer) has returned
ManagerConnected ==
    /\ servers = OneServer
    /\ mtodo = {}
    /\ mcur = 0
    /\ mpc = "returned"
    /\ mconfigs = {1}
    /\ mclients = {1}
    /\ spawned = {1}
    /\ closed = {}
    /\ allTools = {[server |-> 1, info |-> k] : k \in ToolNames}

\* the Client of the connected server, its process running
InitClient(reg) == ClientState(reg, "running") /\ ManagerConnected /\ Rest("client")

Init == InitClient(FALSE)

\* One Client between spawn and death: the callers are in CallTool, the reader
\* routes, the server answers (any ID), closes its stdout, exits.
Next ==
    \/ \E t \in Callers : CallToolStart(t) \/ CallToolReturn(t)
    \/ \E t \in Callers : CallStep(t)
    \/ ReaderStep(0)
    \/ ServerRespond(0)
    \/ ServerCloseStdout(0)
    \/ ServerExit(0)

Spec == Init /\ [][Next]_vars

\* The same Client with a server that answers what it was asked.
NextFair ==
    \/ \E t \in Callers : CallToolStart(t) \/ CallToolReturn(t)
    \/ \E t \in Callers : CallStep(t)
    \/ ReaderStep(0)
    \/ ServerAnswer(0)
    \/ ServerCloseStdout(0)
    \/ ServerExit(0)

\* The goroutines are scheduled: a caller's step that can be taken is taken
\* (the expiry of its ctx aside: that is the caller's business), and so is the
\* reader's.  Nothing is assumed of the server.
CallProgress(t) ==
    \/ CallCheck(t)
    \/ CallRegister(t)
    \/ CallWrite(t)
    \/ CallWriteFail(t)
    \/ CallEnterSelect(t)
    \/ CallCtxDelete(t)
    \/ CallSelectResp(t)
    \/ CallSelectDone(t)

FairSpec ==
    /\ Init
    /\ [][NextFair]_vars
    /\ \A t \in Callers : WF_vars(CallProgress(t))
    /\ WF_vars(ReaderStep(0))

\* the caller the one-caller specifications follow
Solo == {1}

\* The same Client with one caller and a server that also logs to its stdout.
NextLines ==
    \/ \E t \in Solo : CallToolStart(t) \/ CallToolReturn(t)
    \/ \E t \in Solo : CallStep(t)
    \/ ReaderStep(0)
    \/ ServerRespond(0)
    \/ ServerLog(0)
    \/ ServerCloseStdout(0)
    \/ ServerExit(0)

SpecLines == Init /\ [][NextLines]_vars

\* The same Client with one caller, the Manager's registry set, and a server
\* that also sends notifications: the handler runs on the reader's thread.
InitNotify == InitClient(TRUE)

NextNotify ==
    \/ \E t \in Solo : CallToolStart(t) \/ CallToolReturn(t)
    \/ \E t \in Solo \cup {ReaderOf(0)} : CallStep(t)
    \/ ReaderStep(0)
    \/ RefreshReturn(0)
    \/ ServerRespond(0)
    \/ ServerNotify(0)
    \/ ServerCloseStdout(0)
    \/ ServerExit(0)

SpecNotify == InitNotify /\ [][NextNotify]_vars

\* The goroutines of SpecNotify are scheduled, and the refresh's 15 s deadline
\* (manager.go:134) does expire: on the reader's thread every step of call
\* that can be taken is taken.
FairNotify ==
    /\ SpecNotify
    /\ \A t \in Solo : WF_vars(CallProgress(t))
    /\ WF_vars(CallStep(ReaderOf(0)))
    /\ WF_vars(ReaderStep(0))
    /\ WF_vars(RefreshReturn(0))

\* One caller runs MCPTool.Execute on the Client; the processes answer what
\* they were asked and exit; Reconnect replaces them.
NextExec ==
    \/ \E t \in Solo : ExecuteStep(t)
    \/ \E t \in Solo : CallStep(t)
    \/ \E g \in Gens : ReaderStep(g)
    \/ \E g \in Gens : ServerAnswer(g)
    \/ \E g \in Gens : ServerExit(g)

SpecExec == Init /\ [][NextExec]_vars

\* Two callers run MCPTool.Execute on the one Client their tools share, whose
\* process has exited; the replacements answer every request with a result.
InitConc == ClientState(FALSE, "exited") /\ ManagerConnected /\ Rest("client")

NextConc ==
    \/ \E t \in Callers : ExecuteStep(t)
    \/ \E t \in Callers : CallStep(t)
    \/ \E g \in Gens : ReaderStep(g)
    \/ \E g \in Gens : ServerResult(g)

SpecConc == InitConc /\ [][NextConc]_vars

\* A new Manager connects the servers of a configuration: any configuration
\* of NumServers servers, visited in any order.
InitConnect ==
    /\ ClientState(FALSE, "none")
    /\ \E c \in [Servers -> Configs] : ManagerFresh(c)
    /\ Rest("connect")

NextConnect ==
    \/ ConnectAllNext
    \/ ConnectNewClient
    \/ ConnectInitialize
    \/ ConnectListTools
    \/ ConnectAllReturn

SpecConnect == InitConnect /\ [][NextConnect]_vars

\* The registry holds the tools ConnectAll returned for a server; the server
\* changes its catalog, refreshTools lists and registers.
InitRefresh ==
    /\ ClientState(TRUE, "running")
    /\ ManagerConnected
    /\ Rest("registry")
    /\ \E c \in SUBSET CatalogNames :
          /\ catalog = c
          /\ regtools = ToolsOf(1, c)
    /\ listed = "none"
    /\ fpc = "idle"
    /\ ftodo = {}

NextRefresh ==
    \/ CatalogChange
    \/ RefreshList
    \/ RefreshRegister
    \/ RefreshDone

SpecRefresh == InitRefresh /\ [][NextRefresh]_vars

\* The tools of two servers are named: any two pairs of a server name and a
\* tool name of at most MaxName characters.
InitNames ==
    /\ ClientState(FALSE, "none")
    /\ ManagerConnected
    /\ Rest("names")
    /\ qpair \in [1 .. 2 -> [server : Strings(MaxName), tool : Strings(MaxName)]]
    /\ qnames = <<>>

NextNames == NameTools

SpecNames == InitNames /\ [][NextNames]_vars

\* ListTools runs against a server that answers each request with any page,
\* with an error, or with something that is no tools/list result.
InitList ==
    /\ ClientState(FALSE, "running")
    /\ ManagerConnected
    /\ Rest("list")
    /\ ListIdle

NextList ==
    \/ ListToolsStart
    \/ ListToolsCallFails
    \/ ListToolsParseFails
    \/ ListToolsPage
    \/ MakeTools

SpecList == InitList /\ [][NextList]_vars

\* CallTool's call has returned: any result of at most MaxBlocks content
\* blocks, or an error.
InitOutput ==
    /\ ClientState(FALSE, "running")
    /\ ManagerConnected
    /\ Rest("output")
    /\ OutIdle

NextOutput ==
    \/ OutputCallFails
    \/ OutputStart
    \/ OutputBlock
    \/ OutputReturn

SpecOutput == InitOutput /\ [][NextOutput]_vars

\* Goroutines write to a new stderr buffer while another reads it.
InitBuffer ==
    /\ ClientState(FALSE, "running")
    /\ ManagerConnected
    /\ Rest("buffer")
    /\ BufIdle

NextBuffer ==
    \/ \E w \in BufWriters : BufWriteLock(w)
    \/ \E w \in BufWriters : BufAppend(w)
    \/ \E w \in BufWriters : BufTrim(w)
    \/ BufStringLock
    \/ BufStringRead

SpecBuffer == InitBuffer /\ [][NextBuffer]_vars

\* manager.go:48-70  the Manager after ConnectAll has returned for a
\* configuration of enabled servers of which those of `up` work and the
\* others do not start
ManagerWith(up) ==
    /\ servers = [s \in Servers |-> [disabled |-> FALSE,
                                      does |-> IF s \in up THEN "ok" ELSE "nostart",
                                      offers |-> ToolNames]]
    /\ mtodo = {}
    /\ mcur = 0
    /\ mpc = "returned"
    /\ mconfigs = Servers
    /\ mclients = up
    /\ spawned = up
    /\ closed = {}
    /\ allTools = UNION {ToolsOf(s, ToolNames) : s \in up}

\* ServerStatus runs on a Manager with any set of connected servers, each
\* alive or not and with any captured stderr, while Clients die and Executes
\* reconnect them.
InitStatus ==
    /\ ClientState(FALSE, "none")
    /\ \E up \in SUBSET Servers : ManagerWith(up)
    /\ Rest("status")
    /\ salive \in [Servers -> BOOLEAN]
    /\ sstderr \in [Servers -> SeqUpTo(Bytes, BufCap)]
    /\ \A s \in Servers \ mclients : ~salive[s] /\ sstderr[s] = <<>>
    /\ spc = "idle"
    /\ stodo = {}
    /\ scur = 0
    /\ sentry = [alive |-> FALSE]
    /\ status = <<>>

NextStatus ==
    \/ \E s \in mclients : ClientDies(s)
    \/ \E s \in mclients : ClientRevived(s)
    \/ StatusStart
    \/ StatusFirst
    \/ StatusSecond
    \/ StatusStderr
    \/ StatusReturn

SpecStatus == InitStatus /\ [][NextStatus]_vars

\* One Client, its callers in CallTool, its reader and its server (which
\* answers with results and exits when it likes), and a GracefulClose called
\* at any moment.
NextClose ==
    \/ \E t \in Callers : CallToolStart(t) \/ CallToolReturn(t)
    \/ \E t \in Callers : CallStep(t)
    \/ ReaderStep(0)
    \/ ServerResult(0)
    \/ ServerExit(0)
    \/ ClientClose
    \/ CloseStep
    \/ WaitReturn

SpecClose == Init /\ [][NextClose]_vars

\* The goroutines are scheduled: the callers', the reader's, the one in
\* GracefulClose (its timeout elapses) and the one in cmd.Wait.  Nothing is
\* assumed of the server: it need not exit when its stdin is closed.
FairClose ==
    /\ SpecClose
    /\ \A t \in Callers : WF_vars(CallProgress(t))
    /\ WF_vars(ReaderStep(0))
    /\ WF_vars(CloseStep)
    /\ WF_vars(WaitReturn)

\* The same Client owned by a Manager whose Close is called at any moment.
NextShutdown ==
    \/ \E t \in Callers : CallToolStart(t) \/ CallToolReturn(t)
    \/ \E t \in Callers : CallStep(t)
    \/ ReaderStep(0)
    \/ ServerResult(0)
    \/ ServerCloseStdout(0)
    \/ ServerExit(0)
    \/ ManagerCloseStart
    \/ ManagerCloseCall
    \/ ManagerCloseBack
    \/ ManagerCloseReturn
    \/ CloseStep
    \/ WaitReturn

SpecShutdown == Init /\ [][NextShutdown]_vars

\* A connected server configured with any call_timeout; its tools are made
\* by connectServer and by refreshes.
InitTimeout ==
    /\ ClientState(TRUE, "running")
    /\ ManagerConnected
    /\ Rest("timeout")
    /\ tcfg \in Ints
    /\ tmade = {}

NextTimeout ==
    \/ ConnectMakesTool
    \/ RefreshMakesTool

SpecTimeout == InitTimeout /\ [][NextTimeout]_vars

\* The callers' calls and a notify write their frames to the stdin of a
\* running process, which can exit at any moment.
NextWrite ==
    \/ \E t \in InWriters : WriteBegin(t)
    \/ \E t \in InWriters : WriteLock(t)
    \/ \E t \in InWriters : WritePart(t)
    \/ \E t \in InWriters : WriteReturn(t)
    \/ \E t \in InWriters : WriteUnlock(t)
    \/ PipeBreaks

SpecWrite == Init /\ [][NextWrite]_vars

\* ------------------------------------------------------------------ claims

\* thread t's request has been written to a process
Written(t) == \E g \in Gens : [id |-> cid[t], method |-> cmethod[t]] \in wire[g]

\* r is call's termination error: "server ... closed" from the done case, or
\* the synthetic "server closed" response taken from the channel
Terminal(r) == r.kind = "closed" \/ (r.kind = "resp" /\ r.frame.err = "closed")

\* C1, safety: of the calls pending when the reader's read failed, no channel
\* is sent to twice, none returns twice, and one that has returned, returned
\* the termination error (its own cancellation if its ctx fired first; the
\* write error if its request had not been written yet).
C1_Safe ==
    /\ \A i \in IDs : sends[i] <= 1
    /\ \A i \in atDeath : returns[i] <= 1
    /\ \A t \in Threads :
           (cid[t] \in atDeath /\ cpc[t] = "ret") =>
               \/ Terminal(cres[t])
               \/ deadline[t] /\ cres[t].kind = "ctx"
               \/ ~Written(t) /\ cres[t].kind = "write"

\* C1: every call that is pending when the reader's read fails returns (no
\* caller stays blocked), exactly once, with the termination error, and its
\* channel is sent to at most once.
C1_PendingAllFailOnce ==
    /\ []C1_Safe
    /\ \A t \in Callers : [](cid[t] \in atDeath => <>(cpc[t] = "ret"))

\* N = NumCallers calls were pending at the death and all have returned the
\* termination error, each after one delivery
C1_Witness ==
    /\ atDeath = 1 .. NumCallers
    /\ \A t \in Callers :
           /\ cpc[t] = "ret" /\ Terminal(cres[t]) /\ ~deadline[t]
           /\ sends[cid[t]] = 1 /\ returns[cid[t]] = 1

\* how call ended: "response" (the response for its ID, a result or an RPC
\* error), "cancelled" (ctx.Err()), "terminated" (the termination error), or
\* "other"
Outcome(t) ==
    IF Terminal(cres[t]) THEN "terminated"
    ELSE IF cres[t].kind = "ctx" THEN "cancelled"
    ELSE IF cres[t].kind = "resp" /\ cres[t].frame.id = cid[t]
            /\ cres[t].frame.err \in {"none", "rpc"} THEN "response"
    ELSE "other"

\* C2: a call that has written its request and has returned, returned once,
\* with the response for its ID, a cancellation error, or the termination
\* error; while it has not returned it has no outcome.
C2_ExactlyOneOutcome ==
    \A t \in Threads :
        Written(t) =>
            /\ returns[cid[t]] <= 1
            /\ cpc[t] = "ret" => returns[cid[t]] = 1 /\ Outcome(t) \in {"response", "cancelled", "terminated"}
            /\ cpc[t] # "ret" => returns[cid[t]] = 0 /\ cres[t] = NoResult

\* the callers have ended in two different ways among the three, both after
\* their requests were written
C2_Witness ==
    /\ \A t \in Callers : Written(t) /\ cpc[t] = "ret"
    /\ \E t, u \in Callers : Outcome(t) = "response" /\ Outcome(u) = "terminated"
                             /\ cres[t].frame.err = "rpc"

\* C3: a caller that returns a response returns the response whose ID is its
\* request's ID, and no channel ever holds a frame of another ID than the one
\* its call was given.
C3_MatchedByID ==
    /\ \A t \in Threads :
           (cpc[t] = "ret" /\ cres[t].kind = "resp") => cres[t].frame.id = cid[t]
    /\ \A i \in IDs : chan[i] # <<>> => Head(chan[i]).id = i
    /\ \A g \in Gens : rpc[g] = "send" => rframe[g].id = rch[g]

\* two calls were in flight together, the server answered both, and each
\* returned the response that bears its own ID
C3_Witness ==
    /\ \A t \in Callers : cpc[t] = "ret" /\ cres[t].kind = "resp" /\ cres[t].frame.err = "none"
    /\ \E t, u \in Callers : cid[t] < cid[u] /\ cres[t].frame.id # cres[u].frame.id
    /\ emitted[0] = NumCallers
    /\ wire[0] = {[id |-> i, method |-> "tools/call"] : i \in 1 .. NumCallers}

\* C4: whenever a reader is about to send to a pending entry's channel (a
\* routed response, or the terminal error of the deferred loop), the channel
\* is empty: the send does not wait.
C4_ReaderNeverBlocks ==
    \A g \in Gens :
        /\ rpc[g] = "send" => chan[rch[g]] = <<>>
        /\ rpc[g] = "sweep" => \A i \in rrange[g] : chan[pending[rmap[g]][i]] = <<>>

\* the reader is about to send a response to a caller that has timed out and returned
C4_Witness ==
    \E g \in Gens, t \in Callers :
        /\ rpc[g] = "send" /\ rch[g] = cid[t]
        /\ cpc[t] = "ret" /\ cres[t].kind = "ctx"

\* C6: a CallTool with a positive timeout whose request was written to a
\* server that writes nothing and stays up can only return the deadline error,
\* and then the pending table has no entry for it: with no other call, the
\* table is as before the call.
C6_TimeoutNoLeak ==
    \A t \in Callers :
        (tpc[t] = "done" /\ deadline[t] /\ Written(t) /\ emitted[cur] = 0 /\ alive) =>
            /\ cres[t].kind = "ctx"
            /\ cid[t] \notin DOMAIN pending[cur]
            /\ (\A u \in Callers \ {t} : tpc[u] = "idle") => pending[cur] = EmptyMap

\* only one CallTool ran, against a silent live server; it returned the
\* deadline error and the table is empty as before
C6_Witness ==
    \E t \in Callers :
        /\ tpc[t] = "done" /\ deadline[t] /\ Written(t) /\ cres[t].kind = "ctx"
        /\ emitted[cur] = 0 /\ alive /\ proc[cur] = "running"
        /\ \A u \in Callers \ {t} : tpc[u] = "idle"
        /\ pending[cur] = EmptyMap

\* thread t's step is the removal of its entry after its ctx fired
CtxDeleteStep(t) == cpc[t] = "ctxdel" /\ cpc'[t] = "ret"

\* C7: the step by which a cancelled call removes its entry and fails removes
\* only that entry and changes no other call: every other entry, channel,
\* position and result is as before.
C7_CancelTouchesOnlyItself ==
    [][\A t \in Threads :
          CtxDeleteStep(t) =>
              /\ cres'[t].kind = "ctx"
              /\ DOMAIN pending'[cur] = DOMAIN pending[cur] \ {cid[t]}
              /\ \A i \in DOMAIN pending'[cur] : pending'[cur][i] = pending[cur][i]
              /\ chan' = chan
              /\ \A u \in Threads \ {t} : cpc'[u] = cpc[u] /\ cres'[u] = cres[u]]_vars

\* one caller was cancelled while the other was in flight, and the other got
\* its own response afterwards
C7_Witness ==
    \E t, u \in Callers :
        /\ cid[t] < cid[u]
        /\ cpc[t] = "ret" /\ cres[t].kind = "ctx"
        /\ cpc[u] = "ret" /\ Outcome(u) = "response"
        /\ emitted[0] = 1

\* the reader's step takes a response off the stream whose ID has no pending entry
DropStep(g) ==
    /\ rpc[g] = "read"
    /\ out[cur] # <<>>
    /\ out'[cur] = Tail(out[cur])
    /\ Classify(Head(out[cur])) = "response"
    /\ Head(out[cur]).id \notin DOMAIN pending[cur]

\* C8: a response whose ID matches no pending entry is dropped: the pending
\* table and every channel are unchanged, no call changes, and the reader is
\* back at reading the next line.
C8_UnknownIDDropped ==
    [][\A g \in Gens :
          DropStep(g) =>
              /\ pending' = pending
              /\ chan' = chan
              /\ sends' = sends
              /\ cpc' = cpc /\ cres' = cres
              /\ rpc'[g] = "read"
              /\ alive' = alive]_vars

\* a second response for an ID already answered was dropped while another
\* call was pending, and that call then got its own response
C8_Witness ==
    \E t, u \in Callers :
        /\ cpc[t] = "ret" /\ Outcome(t) = "response"
        /\ cpc[u] = "ret" /\ Outcome(u) = "response"
        /\ cid[t] < cid[u]
        /\ emitted[0] = 3 /\ out[0] = <<>> /\ rpc[0] = "read"
        /\ sends[cid[t]] = 1 /\ sends[cid[u]] = 1

\* the reader's step takes a line off the stream that is blank, does not start
\* with '{', or is malformed JSON
BadLineStep(g) ==
    /\ rpc[g] = "read"
    /\ out[cur] # <<>>
    /\ out'[cur] = Tail(out[cur])
    /\ Head(out[cur]).raw \in JunkKinds

\* C9: a blank line, a line not starting with '{' and a malformed JSON line
\* are skipped: the reader is back at reading the next line, and the pending
\* table, the liveness flag, the done signal, the channels and the calls are
\* unchanged, so the frame that follows is routed from the same state.
C9_BadLineSkipped ==
    [][\A g \in Gens :
          BadLineStep(g) =>
              /\ rpc'[g] = "read"
              /\ pending' = pending
              /\ alive' = alive
              /\ done' = done
              /\ chan' = chan
              /\ cpc' = cpc /\ cres' = cres
              /\ notified' = notified]_vars

\* after a skipped line the reader has routed the valid response that
\* followed it and is about to deliver it to its caller
C9_Witness ==
    \E t \in Solo :
        /\ skips >= 1
        /\ rpc[0] = "send" /\ rch[0] = cid[t] /\ rframe[0] = Resp(cid[t], "none")
        /\ cpc[t] = "select"

\* the refresh running on the reader of generation g has written its
\* tools/list request, and the process, still running, has written the result
\* for it to its stdout
RefreshAnswered(g) ==
    LET r == ReaderOf(g) IN
    /\ rpc[g] = "handler"
    /\ cmethod[r] = "tools/list"
    /\ [id |-> cid[r], method |-> "tools/list"] \in wire[g]
    /\ proc[g] = "running"
    /\ \E k \in 1 .. Len(out[g]) : out[g][k] = Resp(cid[r], "none")

\* C5: when the registry is set and a live server has answered the tools/list
\* request of the refresh that its list_changed notification started, the
\* refresh gets that response and registers the tools.
C5_RefreshRegisters ==
    \A g \in Gens : [](RefreshAnswered(g) => <>(cid[ReaderOf(g)] \in registered))

\* no refresh ever registers anything: the only thread that could hand the
\* refresh its response is the one that waits for it
RefreshNeverRegisters ==
    /\ registered = {}
    /\ \A g \in Gens : cpc[ReaderOf(g)] = "ret" => cres[ReaderOf(g)].kind # "resp"

\* the tools/call requests written to the processes
ToolCallFrames == {f \in UNION {wire[g] : g \in Gens} : f.method = "tools/call"}

\* C10: one Execute makes at most two CallTool invocations, so at most two
\* tools/call requests are written, and once it has returned nothing of it is
\* left running.
C10_AtMostTwoCalls ==
    \A t \in Solo :
        /\ ecalls[t] <= 2
        /\ Cardinality(ToolCallFrames) <= ecalls[t]
        /\ epc[t] = "done" => tpc[t] = "idle" /\ cpc[t] \in {"idle", "ret"}

\* Execute found the server dead and reconnected, the server died during the
\* first call and during the retry, two tools/call requests were written, and
\* Execute has returned with the Client dead again
C10_Witness ==
    \E t \in Solo :
        /\ epc[t] = "done"
        /\ ecalls[t] = 2
        /\ Cardinality(ToolCallFrames) = 2
        /\ cur = 2
        /\ ~alive
        /\ Terminal(cres[t])

\* C11 as stated: one Execute makes at most one Reconnect.
C11_AtMostOneReconnect ==
    \A t \in Solo : erecs[t] <= 1

\* C11, amended: one Execute makes at most two Reconnects, at most one before
\* its first CallTool (the Client was not alive when it started) and at most
\* one after it (the call failed and the Client was not alive), and it calls
\* a second time only after that second kind of Reconnect.
C11_AtMostTwoReconnects ==
    \A t \in Solo :
        /\ erecs[t] <= 2
        /\ ecalls[t] = 0 => erecs[t] <= 1
        /\ epc[t] = "pre" => erecs[t] = 1
        /\ ecalls[t] = 2 => erecs[t] >= 1 /\ epc[t] \in {"second", "done"}

\* Execute reconnected a dead Client, called, reconnected again when the
\* server died during the call, and returned the retry's result
C11_Witness ==
    \E t \in Solo :
        /\ epc[t] = "done"
        /\ erecs[t] = 2
        /\ ecalls[t] = 2
        /\ eres[t] = "result"

\* the first CallTool of t's Execute failed by its deadline, by an RPC error
\* or by a result with isError set
FailedNotByDeath(t) ==
    \/ efirst[t].kind = "ctx"
    \/ efirst[t].kind = "resp" /\ efirst[t].frame.err \in {"rpc", "tool"}

\* C12: when the call of Execute fails by timeout, by an RPC error or by a
\* tool-flagged error, Execute makes no Reconnect after it and no second call,
\* and returns that error.
C12_OtherFailuresNotRetried ==
    \A t \in Solo :
        FailedNotByDeath(t) =>
            /\ epc[t] = "done"
            /\ ecalls[t] = 1
            /\ eres[t] = "callerr"

\* Execute's step out of the reconnect it made before calling, when it failed
PreFailStep(t) == epc[t] = "pre" /\ tpc[t] = "recfail" /\ epc'[t] # "pre"

\* C13: when Execute found its Client not alive and the reconnect failed, it
\* returns the "server is down and reconnect failed" error without calling:
\* no CallTool is made and no tools/call request is on any process's input.
C13_DownAndReconnectFailed ==
    /\ [](\A t \in Solo : eres[t] = "down" => ecalls[t] = 0 /\ ToolCallFrames = {})
    /\ [][\A t \in Solo :
             PreFailStep(t) =>
                 /\ epc'[t] = "done"
                 /\ eres'[t] = "down"
                 /\ ecalls'[t] = 0
                 /\ cpc'[t] = cpc[t]
                 /\ wire' = wire]_vars

\* Execute found the Client dead, the replacement process started but the
\* handshake failed, and Execute returned the error without calling
C13_Witness ==
    \E t \in Solo :
        /\ epc[t] = "done"
        /\ eres[t] = "down"
        /\ erecs[t] = 1
        /\ cur = 1
        /\ ToolCallFrames = {}

\* the process the Client refers to is a replacement that is up
ReplacementUp == cur > 0 /\ proc[cur] = "running"

\* C14: a Reconnect whose replacement process starts and answers the handshake
\* succeeds and leaves the Client alive, and the call issued afterwards is
\* written to the replacement and returns its response: while the replacement
\* is up, the handshake fails only by its deadline or by an RPC error of the
\* replacement, a Reconnect that succeeded has the Client alive, and no call
\* against the replacement returns the termination error.
C14_ReconnectRestores ==
    \A t \in Solo :
        ReplacementUp =>
            /\ (tpc[t] = "recfail" /\ cmethod[t] = "initialize") =>
                   \/ cres[t].kind = "ctx"
                   \/ cres[t].kind = "resp" /\ cres[t].frame.err = "rpc"
            /\ tpc[t] = "recok" => alive
            /\ (tpc[t] = "calltool" /\ cpc[t] = "ret" /\ [id |-> cid[t], method |-> "tools/call"] \in wire[cur]) =>
                   ~Terminal(cres[t])

\* C16: once a Reconnect has passed its wait on the done signal and replaced
\* the process, the reader of the old process touches the pending table no
\* more: a reader that holds pendingMu in its deferred loop is the reader of
\* the current process, ranging over the table made with that process.
C16_OldReaderFinished ==
    \A g \in Gens : rpc[g] = "sweep" => cur = g /\ rmap[g] = g

\* C17: a Reconnect that has failed, at the spawn or at the handshake, leaves
\* the Client not alive: the liveness flag of a dead Client is true again only
\* when a Reconnect has completed.
C17_FailedReconnectLeavesDead ==
    \A t \in Solo : tpc[t] = "recfail" => ~alive

\* the processes of the server that are running
LiveProcs == {g \in Gens : proc[g] \in {"running", "eof"}}

\* C15: at any time at most one process of the server is running, also when
\* two Executes that share the Client reconnect it at the same time.
C15_OneLiveProcess == Cardinality(LiveProcs) <= 1

\* the methods that need an initialized server
ToolMethods == {"tools/list", "tools/call"}

\* C18: a tools/list or tools/call request is written only to a process whose
\* "initialize" has been answered with a result.
C18_HandshakeBeforeTools ==
    [][\A g \in Gens : \A f \in wire'[g] \ wire[g] :
          f.method \in ToolMethods => g \in inited]_vars

\* the servers of the configuration that are enabled and work
Working == {s \in Servers : ~servers[s].disabled /\ servers[s].does = "ok"}

\* C19: when ConnectAll has returned, every enabled server that starts,
\* initializes and lists its tools is in the client map and its tools are in
\* the returned list, whatever the other servers did and in whatever order
\* the servers were visited.
C19_FailureIsolated ==
    mpc = "returned" =>
        \A s \in Working : s \in mclients /\ ToolsOf(s, servers[s].offers) \subseteq allTools

\* ConnectAll has returned: an enabled server failed and a working one, which
\* offers tools, is connected
C19_Witness ==
    /\ mpc = "returned"
    /\ \E s \in Working : \E f \in Servers :
          /\ servers[s].offers # {}
          /\ ~servers[f].disabled
          /\ servers[f].does # "ok"
          /\ f \notin mclients
          /\ s \in mclients

\* C20: when ConnectAll has returned, the client map holds exactly the enabled
\* servers that started, initialized and listed their tools; no disabled
\* server was ever spawned; every returned tool is of a server in the map.
C20_ExactlyTheWorking ==
    /\ mpc = "returned" => mclients = Working
    /\ \A s \in spawned : ~servers[s].disabled
    /\ \A t \in allTools : t.server \in Working

\* ConnectAll has returned with a disabled server, a failed one and a
\* connected one
C20_Witness ==
    /\ mpc = "returned"
    /\ \E s \in Servers : servers[s].disabled
    /\ \E s \in Servers : ~servers[s].disabled /\ servers[s].does = "nolist"
                          /\ s \in spawned /\ s \in closed /\ s \notin mclients
    /\ \E s \in Working : s \in mclients /\ ToolsOf(s, ToolNames) \subseteq allTools

\* the tools of the server the registry holds
RegisteredOf(srv) == {t \in regtools : t.server = srv}

\* C21: when a refresh has completed, the server's tools in the registry are
\* the tools of the latest tools/list result: each of them is registered and
\* no other tool of the server is.
C21_RegistryIsLatestCatalog ==
    [][(fpc = "register" /\ fpc' = "idle") => RegisteredOf(1)' = ToolsOf(1, listed')]_vars

\* C22: the tools of two servers with different names have different
\* qualified names.
C22_NoCrossServerCollision ==
    (qnames # <<>> /\ qpair[1].server # qpair[2].server) => qnames[1] # qnames[2]

\* the tools of the pages ps, page after page, as the server wrote them
RECURSIVE Flatten(_)
Flatten(ps) == IF ps = <<>> THEN <<>> ELSE Head(ps).tools \o Flatten(Tail(ps))

\* C23: a ListTools that succeeded sent its first request without cursor and
\* every later one with the nextCursor of the page before, stopped at the
\* first page without nextCursor, and returns the tools of all pages in page
\* order and in-page order.
C23_PagesInOrder ==
    (lpc = "done" /\ lret.err = "none") =>
        /\ Len(lsent) = Len(lgot)
        /\ lsent[1] = 0
        /\ \A i \in 2 .. Len(lsent) : lsent[i] = lgot[i - 1].nextCursor
        /\ \A i \in 1 .. Len(lgot) : (lgot[i].nextCursor = 0) = (i = Len(lgot))
        /\ Len(lret.tools) = Len(Flatten(lgot))
        /\ \A i \in 1 .. Len(lret.tools) : lret.tools[i].name = Flatten(lgot)[i].name

\* two pages of two tools each, the names of the second page unlike those of
\* the first, were listed
C23_Witness ==
    /\ lpc = "done"
    /\ lret.err = "none"
    /\ Len(lgot) = 2
    /\ Len(lgot[1].tools) = 2
    /\ Len(lgot[2].tools) = 2
    /\ lgot[1].tools[1].name # lgot[1].tools[2].name
    /\ lgot[2].tools[1].name # lgot[1].tools[1].name
    /\ lgot[1].nextCursor = 2

\* C24 as stated: the info ListTools returns for a tool whose inputSchema is
\* null carries the defaulted schema.
C24_ListedInfoDefaulted ==
    (lpc = "done" /\ lret.err = "none") =>
        \A i \in 1 .. Len(lret.tools) :
            Flatten(lgot)[i].inputSchema = "null" => lret.tools[i].schema = "default"

\* C24 amended: the info ListTools returns for such a tool has a nil schema,
\* and the MCPTool made of it carries the defaulted schema; the schema of
\* another tool is kept.
C24_MadeToolDefaulted ==
    /\ (lpc = "done" /\ lret.err = "none") =>
           \A i \in 1 .. Len(lret.tools) :
               (Flatten(lgot)[i].inputSchema = "null") = (lret.tools[i].schema = "nil")
    /\ lpc = "made" =>
           /\ Len(lmade) = Len(Flatten(lgot))
           /\ \A i \in 1 .. Len(lmade) :
                  /\ lmade[i].toolName = Flatten(lgot)[i].name
                  /\ lmade[i].inputSchema =
                         IF Flatten(lgot)[i].inputSchema = "null" THEN "default" ELSE "map"

\* the MCPTools of a tool with a null inputSchema and of one with a schema
\* were made
C24_Witness ==
    /\ lpc = "made"
    /\ \E i \in 1 .. Len(lmade) : Flatten(lgot)[i].inputSchema = "null"
    /\ \E i \in 1 .. Len(lmade) : Flatten(lgot)[i].inputSchema = "object"

\* the rendering of one block: a text block is its text, an image block the
\* placeholder with its mime type and payload size, another block its text
Rendering(b) ==
    CASE b.type = "text" -> b.text
      [] b.type = "image" -> ImagePlaceholder(b)
      [] OTHER -> b.text

\* the renderings rs joined with one newline between neighbours
RECURSIVE JoinLines(_)
JoinLines(rs) ==
    IF rs = <<>> THEN <<>>
    ELSE IF Len(rs) = 1 THEN rs[1]
    ELSE rs[1] \o <<"\n">> \o JoinLines(Tail(rs))

\* the rendering of a content sequence
Rendered(content) == JoinLines([i \in 1 .. Len(content) |-> Rendering(content[i])])

\* CallTool has returned what it made of a result
Answered == kpc = "done" /\ kret.err \notin {<<"call">>, <<"parse">>}

\* C25: for a result with isError set CallTool returns no result and the tool
\* error whose detail is the rendering of the content; for another result it
\* returns the rendering and no error.
C25_FlaggedIsError ==
    Answered =>
        IF kresult.isError
        THEN kret = [result |-> <<>>, err |-> <<"mcp tool error: ">> \o Rendered(kresult.content)]
        ELSE kret = [result |-> Rendered(kresult.content), err |-> <<>>]

\* the result {isError: true, content: [text "boom"]} was answered with the
\* error of detail "boom"
C25_Witness ==
    /\ Answered
    /\ kresult.isError
    /\ Len(kresult.content) = 1
    /\ kresult.content[1].type = "text"
    /\ kret.err = <<"mcp tool error: ", "boom">>

\* C26: what CallTool makes of a content sequence, as result or as error
\* detail, is the blocks' renderings in order with one newline between
\* consecutive blocks.
C26_RenderingJoined ==
    /\ kpc = "loop" => ksb = Rendered(SubSeq(kresult.content, 1, ki))
    /\ Answered => \/ kret.result = Rendered(kresult.content)
                   \/ kret.err = <<"mcp tool error: ">> \o Rendered(kresult.content)

\* an image block without mime type followed by a block of another kind
\* without text was rendered
C26_Witness ==
    /\ Answered
    /\ Len(kresult.content) = 2
    /\ kresult.content[1].type = "image"
    /\ kresult.content[1].mimeType = <<>>
    /\ kresult.content[1].data # <<>>
    /\ kresult.content[2].type = "resource"
    /\ kresult.content[2].text = <<>>
    /\ kret.result = <<"[image: ", "image/unknown", ", ", ToString(Len(kresult.content[1].data)), " bytes base64]", "\n">>

\* the last n elements of d, all of d when it has fewer
LastOf(d, n) == [i \in 1 .. (IF Len(d) < n THEN Len(d) ELSE n) |->
                    d[i + (IF Len(d) < n THEN 0 ELSE Len(d) - n)]]

\* C27: whenever no Write is under way the buffer is no longer than its
\* capacity and holds the last bytes written, and so does whatever String
\* returned, with writers and a reader running concurrently.
C27_BufferKeepsLastBytes ==
    /\ bmu \notin BufWriters => /\ Len(bdata) <= BufCap
                               /\ bdata = LastOf(bwritten, BufCap)
    /\ Len(bseen.data) <= BufCap
    /\ bseen.data = LastOf(bseen.written, BufCap)

\* String returned a full buffer after the two writers had written more than
\* the capacity
C27_Witness ==
    /\ Len(bseen.written) > BufCap
    /\ Len(bseen.data) = BufCap
    /\ \A w \in BufWriters : bp[w] # <<>>
    /\ bseen.data # SubSeq(bseen.written, 1, BufCap)

\* C28: the map ServerStatus returns has an entry for every managed server
\* and for no other, each with its liveness; the entry of a server reported
\* dead whose captured stderr is not empty carries the last min(500, length)
\* bytes of it; no entry carries more than 500 bytes.
C28_StatusEntries ==
    spc = "returned" =>
        /\ DOMAIN status = mclients
        /\ \A s \in DOMAIN status :
               /\ status[s].alive \in BOOLEAN
               /\ "last_stderr" \in DOMAIN status[s] =>
                      Len(status[s].last_stderr) <= StatusTail
               /\ (~status[s].alive /\ sstderr[s] # <<>>) =>
                      /\ "last_stderr" \in DOMAIN status[s]
                      /\ status[s].last_stderr = LastOf(sstderr[s], StatusTail)

\* ServerStatus has returned an entry that reports a dead server with
\* captured stderr and carries the tail of it.
C28_Witness ==
    /\ spc = "returned"
    /\ \E s \in DOMAIN status :
           /\ ~status[s].alive
           /\ Len(sstderr[s]) > StatusTail
           /\ "last_stderr" \in DOMAIN status[s]
           /\ status[s].last_stderr = LastOf(sstderr[s], StatusTail)

\* the process of the Client has ended
Ended == proc[cur] \in {"exited", "reaped"}

\* C29, safety: GracefulClose has closed the process's stdin before it waits,
\* and it kills only in the timeout case, after that, and only a process that
\* has not exited and that cmd.Wait has not returned for.
C29_KillOnlyAfterTimeout ==
    [][/\ (gpc' \in {"select", "returned"} /\ wpc' # "none") => ~stdinOpen'[cur]
       /\ (gpc = "select" /\ gpc' = "returned" /\ proc' # proc) =>
              /\ ~stdinOpen[cur]
              /\ gkilled'
              /\ proc[cur] \in {"running", "eof"}
              /\ wpc = "wait"
       /\ (gpc = "select" /\ gpc' = "returned" /\ wpc = "sent" /\ ~gkilled') =>
              proc' = proc /\ Ended]_vars

\* C29: GracefulClose on an alive Client closes the stdin first and kills
\* only at the timeout a process that has not exited; in both cases the
\* process ends, the Client becomes dead, and every call pending at its death
\* returns, with the termination error.
C29_GracefulCloseEnds ==
    /\ C29_KillOnlyAfterTimeout
    /\ []C1_Safe
    /\ (gpc = "select") ~>
           (Ended /\ ~alive /\ \A t \in Callers : cid[t] \in atDeath => cpc[t] = "ret")

\* GracefulClose has killed, at its timeout, a process that had not exited on
\* the closing of its stdin; the reader has ended and a call that was pending
\* has returned the termination error.
C29_Witness ==
    /\ gpc = "returned"
    /\ gkilled
    /\ proc[cur] = "reaped"
    /\ ~alive
    /\ rpc[0] = "exit"
    /\ \E t \in Callers : cid[t] \in atDeath /\ cpc[t] = "ret" /\ Terminal(cres[t])

\* a process of a managed server that is still running
StillRunning == {g \in Gens : proc[g] \in {"running", "eof"}}

\* C30: once Manager.Close has returned, no process of a managed server is
\* still running.
C30_NothingRunsAfterClose == xpc = "returned" => StillRunning = {}

\* C31: every tool made by connectServer or by a refresh has a positive
\* per-call timeout: the configured number of seconds when that is positive,
\* 60 seconds otherwise.
C31_TimeoutConfiguredOrDefault ==
    \A t \in tmade :
        /\ t.callTimeout > 0
        /\ t.callTimeout = IF tcfg > 0 THEN tcfg * Second ELSE DefaultSeconds * Second

\* C32: no pending entry outlives its call: once a call has returned (by
\* response, cancellation, write failure or the termination signal), the
\* pending table of its Client holds no entry for the call's ID.
C32_NoEntryOutlivesCall ==
    \A t \in Callers :
        (cpc[t] = "ret" /\ cid[t] # 0) => cid[t] \notin DOMAIN pending[cur]

\* C33: a call that finds the liveness flag false returns at once with the
\* "not running" error: it takes no ID, adds no entry to the pending table and
\* writes nothing to the process's stdin.
C33_DeadClientCallFails ==
    [][\A t \in Threads :
          (cpc[t] = "check" /\ cpc'[t] # "check" /\ ~alive) =>
              /\ cpc'[t] = "ret"
              /\ cres'[t].kind = "notrunning"
              /\ nextID' = nextID
              /\ pending' = pending
              /\ wire' = wire]_vars

\* a call made on the dead Client has returned "not running"; the process
\* has received nothing and the table is empty
C33_Witness ==
    /\ ~alive
    /\ \E t \in Callers : cpc[t] = "ret" /\ cres[t].kind = "notrunning" /\ cid[t] = 0
    /\ wire[cur] = {}
    /\ pending[cur] = EmptyMap

\* the threads inside call that hold an ID
Holding == {t \in Threads : cid[t] # 0 /\ cpc[t] \notin {"idle", "ret"}}

\* C34: the IDs of a Client are handed out in strictly increasing order and
\* never twice, also across Reconnects (the counter never goes back): no two
\* calls in flight hold the same ID, and no table holds an ID not yet given.
C34_IDsIncrease ==
    /\ [][/\ nextID' >= nextID
          /\ \A t \in Threads :
                (cid'[t] # cid[t] /\ cid'[t] # 0) =>
                    /\ cid'[t] > nextID
                    /\ cid'[t] = nextID'
                    /\ \A u \in Threads : cid'[t] > cid[u]
                    /\ \A g \in Gens : \A i \in DOMAIN pending[g] : cid'[t] > i]_vars
    /\ [](\A t, u \in Holding : t # u => cid[t] # cid[u])
    /\ [](\A g \in Gens : \A i \in DOMAIN pending[g] : i <= nextID)

\* after a Reconnect, two calls are pending on the new process with
\* different IDs, both greater than the ID of the reconnect's initialize
C34_Witness ==
    /\ cur >= 1
    /\ \E t, u \in Callers :
          /\ t # u
          /\ {cid[t], cid[u]} \subseteq DOMAIN pending[cur]
          /\ cid[t] # cid[u]
          /\ cid[t] > 1 /\ cid[u] > 1

\* the frames of which the pipe has received the last part
Complete == {inbytes[i].frame : i \in {j \in 1 .. Len(inbytes) : inbytes[j].part = FrameParts}}

\* C35: at any time at most one operation is writing to the process's stdin,
\* and what the pipe has received is whole frames one after the other: every
\* part follows the part before it of its own frame, and a frame begins only
\* where the frame before it has ended with its newline.
C35_FramesNeverInterleave ==
    /\ Cardinality({t \in InWriters : inpc[t] \in {"writing", "unlock"}}) <= 1
    /\ \A i \in 1 .. Len(inbytes) :
          IF inbytes[i].part = 1
          THEN i > 1 => inbytes[i - 1].part = FrameParts
          ELSE /\ i > 1
               /\ inbytes[i - 1] = [frame |-> inbytes[i].frame, part |-> inbytes[i].part - 1]

\* the pipe has received whole frames of two concurrent calls and of a
\* notify, written while the others waited for the lock
C35_Witness ==
    /\ \E f, g, h \in Complete :
          f.kind = "call" /\ g.kind = "call" /\ f # g /\ h.kind = "notify"
    /\ Len(inbytes) = 3 * FrameParts

\* the handler the reader called has not returned
HandlerRuns == cpc[ReaderOf(0)] # "idle"

\* the entries of pending table m that are not the handler's own call's
Others(m) == [i \in DOMAIN m \ {cid[ReaderOf(0)], cid'[ReaderOf(0)]} |-> m[i]]

\* C36: a notification is handed to the handler when the reader reads its
\* line, the first unread line of the stream, so one at a time and in the
\* stream's order; while the handler runs the reader reads no line and hands
\* over no notification; handing a notification over changes no pending
\* entry, and the handler's own call changes no entry of another call.
C36_NotificationsInOrder ==
    [][/\ notified' # notified =>
             /\ ~HandlerRuns
             /\ rpc[0] = "read"
             /\ out[cur] # <<>>
             /\ Classify(Head(out[cur])) = "notification"
             /\ notified' = Append(notified, Head(out[cur]).method)
             /\ out'[cur] = Tail(out[cur])
             /\ pending' = pending
       /\ HandlerRuns =>
             /\ notified' = notified
             /\ Len(out'[cur]) >= Len(out[cur])
             /\ cpc'[ReaderOf(0)] # cpc[ReaderOf(0)] => Others(pending'[cur]) = Others(pending[cur])]_vars

\* the handler was given list_changed, has run its refresh while a call of
\* the caller was pending and a later line waited, has returned, and was then
\* given the next notification
C36_Witness ==
    /\ notified = <<ListChanged, OtherNotification>>
    /\ ~HandlerRuns
    /\ returns[cid[ReaderOf(0)]] = 1
    /\ \E t \in Solo : cid[t] # 0

\* the threads whose call has an entry in the current pending table and has
\* not returned
Waiting == {t \in Threads : cid[t] \in DOMAIN pending[cur] /\ cpc[t] \in {"write", "wfail", "enter", "select"}}

\* C37: when startProcess replaces the Client's pending table and done
\* channel, the table it discards holds no entry of a call that is still
\* waiting.
C37_NoCallOrphaned ==
    [][cur' # cur => Waiting = {}]_vars

\* C38: every entry ServerStatus returns carries last_stderr only if its
\* alive field is false.
C38_EntrySelfConsistent ==
    spc = "returned" =>
        \A s \in DOMAIN status :
            "last_stderr" \in DOMAIN status[s] => ~status[s].alive

\* C39: a call whose write to the process's stdin failed removes the entry it
\* had registered, touches no other entry and returns a write error; after
\* it the table holds no entry for its ID, and the process has not received
\* its request.
C39_WriteFailureCleansUp ==
    /\ [][\A t \in Callers :
             (cpc[t] = "wfail" /\ cpc'[t] # "wfail") =>
                 /\ cpc'[t] = "ret"
                 /\ cres'[t].kind = "write"
                 /\ DOMAIN pending'[cur] = DOMAIN pending[cur] \ {cid[t]}
                 /\ \A i \in DOMAIN pending'[cur] : pending'[cur][i] = pending[cur][i]]_vars
    /\ [](\A t \in Callers :
             (cpc[t] = "ret" /\ cres[t].kind = "write") =>
                 /\ cid[t] \notin DOMAIN pending[cur]
                 /\ ~Written(t))

\* a call has returned the write error and left no entry, while another
\* call's entry is still in the table
C39_Witness ==
    \E t, u \in Callers :
        /\ cpc[t] = "ret" /\ cres[t].kind = "write"
        /\ cid[t] \notin DOMAIN pending[cur]
        /\ u # t /\ cid[u] \in DOMAIN pending[cur]

\* C40: a ListTools of which a page's request failed or a page did not parse
\* returns the error and no tools, whatever the pages before it held, and
\* its caller makes (and a refresh registers) no tool.
C40_NoPartialResult ==
    (lpc = "done" /\ lret.err # "none") =>
        /\ lret.tools = <<>>
        /\ lmade = <<>>

\* ListTools has failed on its second page after a first page with tools,
\* and has returned none
C40_Witness ==
    /\ lpc = "done"
    /\ lret.err \in {"call", "parse"}
    /\ Len(lgot) = 1
    /\ Len(lall) = MaxPage
    /\ Len(lsent) = 2
    /\ lret.tools = <<>>
====
